---- MODULE Spec2Model ----
(***************************************************************************)
(* A model of cmkcli.py, the command line client of Check_MK.              *)
(*                                                                         *)
(*   - SpecScraper : WatoSitesHtmlParser, one parser event per step, then  *)
(*                   get_sites.                                            *)
(*   - SpecListing : one listing operation applied to the answers of the   *)
(*                   server.                                               *)
(*   - Spec        : one run of a command: the interactive acknowledge and *)
(*                   un-acknowledge sessions, the view actions, add_host,  *)
(*                   refresh, activate, get_ip_bulk, downtime_list, the    *)
(*                   bulk downtimes and the refresh of several hosts.      *)
(*   - SpecText    : the normalisation of a detail text.                   *)
(*                                                                         *)
(* Text that the program only compares or copies (site ids, tags) is a     *)
(* TLA+ string.  Text that the program searches, wraps or rewrites is a    *)
(* sequence of one-character strings.                                      *)
(***************************************************************************)
EXTENDS Integers, Sequences, FiniteSets, TLC

VARIABLES
    \* WatoSitesHtmlParser and the page fed to it
    page, pos, output, row_index, column_index, header_found, raised,
    returned, sites,
    \* CheckMk
    print_colour,
    \* a listing operation: its name, the answers of the server it read (the
    \* host problems, service problems and comments views), and what it returned
    op, host_view, service_view, comments_view, wanted, table, refresh_hosts,
    \* a run of a command: where it stands, the numbered tables of a session,
    \* the accepted selection and the problem it names, the comment entered,
    \* the last thing read from the terminal, the number of times the prompt
    \* at hand has called itself, the arguments of the command, the
    \* requests sent so far, the lines written so far, the exit status
    pc, host_table, service_table, selected, target, ack_comment, typed, depth, args,
    requests, stdout, exit_code

scraperVars == <<page, pos, output, row_index, column_index, header_found,
                 raised, returned, sites>>
parserVars == <<page, pos, output, row_index, column_index, header_found,
                returned, sites>>
listingVars ==
    <<op, host_view, service_view, comments_view, wanted, table, refresh_hosts>>
sessionVars ==
    <<host_table, service_table, selected, target, ack_comment, typed, depth>>
runVars == <<pc, sessionVars, args, requests, stdout, exit_code>>
vars == <<scraperVars, print_colour, listingVars, runVars>>

(***************************************************************************)
(* Bounds                                                                  *)
(***************************************************************************)
\* the largest number of <tr> in the data table of a generated page
MaxRows == 3
\* the largest number of rows after the header of a problems view
MaxProblems == 2
\* the largest number of rows after the header of the comments view
MaxComments == 2
\* the largest number of pieces a detail text is made of
MaxPieces == 3
\* the largest number of rows after the header of the downtimes view
MaxDowntimes == 2
\* the largest number of hosts the server has
MaxHosts == 3
\* the number of times a prompt function can call itself before the
\* interpreter refuses a further call with a RecursionError (about a thousand
\* in the interpreter, scaled down here)
RecursionLimit == 2

(***************************************************************************)
(* Sequences                                                               *)
(***************************************************************************)
RECURSIVE Flatten(_)
Flatten(ss) == IF ss = <<>> THEN <<>> ELSE Head(ss) \o Flatten(Tail(ss))

\* list.pop(0) and list.pop() on a non-empty list
PopFirst(s) == Tail(s)
PopLast(s) == SubSeq(s, 1, Len(s) - 1)

\* del row[k]
DelAt(row, k) == SubSeq(row, 1, k) \o SubSeq(row, k + 2, Len(row))

\* print: a printed line is kept as its format string and the values
\* formatted into it
Message(text, about) == [text |-> text, about |-> about]

(***************************************************************************)
(* The events html.parser.HTMLParser.feed hands to the handlers: one per   *)
(* start tag, end tag and run of text between two tags.                    *)
(***************************************************************************)
StartTag(tag) == [ev |-> "start", arg |-> tag]
EndTag(tag) == [ev |-> "end", arg |-> tag]
Text(data) == [ev |-> "data", arg |-> data]

(***************************************************************************)
(* WatoSitesHtmlParser.  A parser is the record of its four fields plus    *)
(* exc, the exception a handler raised ("none" while none was raised).     *)
(***************************************************************************)
NewParser ==
    [output |-> <<>>, row_index |-> -1, column_index |-> 0,
     header_found |-> FALSE, exc |-> "none"]

\* handle_starttag without its test of header_found
handle_starttag_before_header(p, tag) ==
    LET q == IF tag = "tr"
             THEN [p EXCEPT !.row_index = p.row_index + 1,
                            !.column_index = 0,
                            !.output = Append(p.output, <<>>)]
             ELSE p
    IN IF tag = "td"
       THEN [q EXCEPT !.column_index = q.column_index + 1]
       ELSE q

handle_starttag(p, tag) ==
    IF ~p.header_found
    THEN p
    ELSE LET q == IF tag = "tr"
                  THEN [p EXCEPT !.row_index = p.row_index + 1,
                                 !.column_index = 0,
                                 !.output = Append(p.output, <<>>)]
                  ELSE p
         IN IF tag = "td"
            THEN [q EXCEPT !.column_index = q.column_index + 1]
            ELSE q

handle_endtag(p, tag) ==
    IF tag = "table" /\ ~p.header_found
    THEN [p EXCEPT !.header_found = TRUE]
    ELSE p

\* self.output[self.row_index]: Python indexes from 0, and a negative index
\* counts from the end; outside the list it raises IndexError.
RowAt(p) ==
    IF p.row_index >= 0 THEN p.row_index + 1
    ELSE Len(p.output) + p.row_index + 1

handle_data(p, data) ==
    IF p.column_index \in {2, 3, 4}
    THEN IF RowAt(p) \in 1..Len(p.output)
         THEN [p EXCEPT !.output[RowAt(p)] = Append(@, data)]
         ELSE [p EXCEPT !.exc = "IndexError"]
    ELSE p

\* get_sites: the value returned, or the exception raised by a pop
get_sites(p) ==
    IF Len(p.output) = 0
    THEN [exc |-> "IndexError", rows |-> <<>>]
    ELSE IF Len(PopLast(p.output)) = 0
         THEN [exc |-> "IndexError", rows |-> <<>>]
         ELSE [exc |-> "none", rows |-> PopFirst(PopLast(p.output))]

HandleEvent(p, e) ==
    CASE e.ev = "start" -> handle_starttag(p, e.arg)
      [] e.ev = "end" -> handle_endtag(p, e.arg)
      [] e.ev = "data" -> handle_data(p, e.arg)

\* HTMLParser.feed: every event in document order, up to a raised exception
RECURSIVE Feed(_, _)
Feed(p, events) ==
    IF events = <<>> \/ p.exc # "none" THEN p
    ELSE Feed(HandleEvent(p, Head(events)), Tail(events))

\* CheckMk.get_sites: a fresh parser, feed, get_sites
ScrapeSites(events) ==
    LET p == Feed(NewParser, events)
    IN IF p.exc # "none" THEN [exc |-> p.exc, rows |-> <<>>] ELSE get_sites(p)

(***************************************************************************)
(* Pages.  A table row is a sequence of cells; a cell has its tag and its  *)
(* text nodes (two nodes of one cell are separated by a <br>); sep is the  *)
(* text between a cell's end tag and the next tag ("" for none).           *)
(***************************************************************************)
Cell(tag, nodes) == [tag |-> tag, nodes |-> nodes]

RECURSIVE NodeEvents(_)
NodeEvents(nodes) ==
    IF nodes = <<>> THEN <<>>
    ELSE IF Len(nodes) = 1 THEN <<Text(Head(nodes))>>
    ELSE <<Text(Head(nodes)), StartTag("br")>> \o NodeEvents(Tail(nodes))

CellEvents(cell, sep) ==
    <<StartTag(cell.tag)>> \o NodeEvents(cell.nodes) \o <<EndTag(cell.tag)>>
        \o (IF sep = "" THEN <<>> ELSE <<Text(sep)>>)

RowEvents(row) ==
    <<StartTag("tr")>>
        \o Flatten([i \in 1..Len(row.cells) |-> CellEvents(row.cells[i], row.sep)])
        \o <<EndTag("tr")>>

TableEvents(rows) ==
    <<StartTag("table")>>
        \o Flatten([i \in 1..Len(rows) |-> RowEvents(rows[i])])
        \o <<EndTag("table")>>

\* the page chrome that precedes the sites table
HeaderTable ==
    TableEvents(<<[cells |-> <<Cell("td", <<"nav">>)>>, sep |-> ""]>>)

\* the rows a sites table is made of
TitleRow ==
    [cells |-> <<Cell("th", <<"Actions">>), Cell("th", <<"ID">>),
                 Cell("th", <<"Alias">>), Cell("th", <<"Socket">>)>>,
     sep |-> ""]
SiteRow(id, alias, socket, sep) ==
    [cells |-> <<Cell("td", <<"edit">>), Cell("td", id), Cell("td", alias),
                 Cell("td", socket), Cell("td", <<"online">>)>>,
     sep |-> sep]
RowKinds ==
    { TitleRow,
      SiteRow(<<"prod">>, <<"Production">>, <<"tcp:1">>, ""),
      SiteRow(<<"lab">>, <<>>, <<"tcp:3">>, ""),
      SiteRow(<<"dmz">>, <<"De", "Mil">>, <<"tcp:4">>, ""),
      SiteRow(<<"dev">>, <<"Develop">>, <<"tcp:5">>, "\n") }

\* the title row, when present, is the first row of the table
RowSeqs ==
    UNION { {rows \in [1..n -> RowKinds] : \A i \in 2..n : rows[i] # TitleRow}
            : n \in 0..MaxRows }

\* exactly one header table followed by one data table
TwoTablePage(rows) == HeaderTable \o TableEvents(rows)
TwoTablePages == {TwoTablePage(rows) : rows \in RowSeqs}

\* pages without a closing </table>: a login form, an error text, a page
\* cut off inside its first table
NoTablePages ==
    { <<>>,
      <<Text("login")>>,
      <<StartTag("form"), Text("user"), EndTag("form")>>,
      <<StartTag("table"), StartTag("tr"), StartTag("td"), Text("nav"),
        EndTag("td"), EndTag("tr")>> }

\* pages whose markup after the header table is broken: cells outside any
\* row, alone or ahead of the sites table
StrayCells ==
    <<StartTag("td"), Text("edit"), EndTag("td"),
      StartTag("td"), Text("prod"), EndTag("td")>>
StrayCellPages ==
    { HeaderTable \o StrayCells,
      HeaderTable \o <<StartTag("td"), Text("edit"), EndTag("td")>>
          \o TableEvents(<<SiteRow(<<"prod">>, <<"Production">>, <<"tcp:1">>, "")>>) }

Pages == TwoTablePages \cup NoTablePages \cup StrayCellPages

HasCloseTable(events) ==
    \E i \in 1..Len(events) : events[i] = EndTag("table")

(***************************************************************************)
(* SpecScraper: the parser fed one event per step, then get_sites.         *)
(***************************************************************************)
Parser ==
    [output |-> output, row_index |-> row_index, column_index |-> column_index,
     header_found |-> header_found, exc |-> raised]

SetParser(p) ==
    /\ output' = p.output
    /\ row_index' = p.row_index
    /\ column_index' = p.column_index
    /\ header_found' = p.header_found
    /\ raised' = p.exc

\* no listing operation has run
ListingIdle ==
    /\ op = "none"
    /\ host_view = <<>>
    /\ service_view = <<>>
    /\ comments_view = <<>>
    /\ wanted = <<>>
    /\ table = <<>>
    /\ refresh_hosts = {}

\* no command has started
NoInput == [prompt |-> "none", key |-> "none", text |-> <<>>]
NoArgs ==
    [hostname |-> <<>>, folder |-> "", folder_create |-> FALSE, site |-> "",
     ip |-> <<>>, ignore_dns |-> FALSE]

RunIdle ==
    /\ pc = "start"
    /\ host_table = <<>>
    /\ service_table = <<>>
    /\ selected = 0
    /\ target = <<>>
    /\ ack_comment = <<>>
    /\ typed = NoInput
    /\ depth = 0
    /\ args = NoArgs
    /\ requests = <<>>
    /\ stdout = <<>>
    /\ exit_code = -1

ScraperNew ==
    /\ pos = 1
    /\ output = NewParser.output
    /\ row_index = NewParser.row_index
    /\ column_index = NewParser.column_index
    /\ header_found = NewParser.header_found
    /\ raised = NewParser.exc
    /\ returned = FALSE
    /\ sites = <<>>

InitScraper ==
    /\ page \in Pages
    /\ ScraperNew
    /\ print_colour = TRUE
    /\ ListingIdle
    /\ RunIdle

Feeding == pos <= Len(page) /\ raised = "none" /\ ~returned

StartTagEvent ==
    /\ Feeding
    /\ page[pos].ev = "start"
    /\ SetParser(handle_starttag(Parser, page[pos].arg))
    /\ pos' = pos + 1
    /\ UNCHANGED <<page, returned, sites, print_colour, listingVars, runVars>>

EndTagEvent ==
    /\ Feeding
    /\ page[pos].ev = "end"
    /\ SetParser(handle_endtag(Parser, page[pos].arg))
    /\ pos' = pos + 1
    /\ UNCHANGED <<page, returned, sites, print_colour, listingVars, runVars>>

DataEvent ==
    /\ Feeding
    /\ page[pos].ev = "data"
    /\ SetParser(handle_data(Parser, page[pos].arg))
    /\ pos' = pos + 1
    /\ UNCHANGED <<page, returned, sites, print_colour, listingVars, runVars>>

GetSites ==
    /\ pos > Len(page)
    /\ raised = "none"
    /\ ~returned
    /\ LET r == get_sites(Parser)
       IN /\ raised' = r.exc
          /\ returned' = (r.exc = "none")
          /\ sites' = r.rows
          /\ output' = IF r.exc = "none" THEN r.rows
                       ELSE IF Len(output) = 0 THEN output ELSE PopLast(output)
    /\ UNCHANGED <<page, pos, row_index, column_index, header_found,
                   print_colour, listingVars, runVars>>

NextScraper == StartTagEvent \/ EndTagEvent \/ DataEvent \/ GetSites

SpecScraper == InitScraper /\ [][NextScraper]_vars

\* the scrape has ended: get_sites returned, or an exception was raised
ScrapeEnded == returned \/ raised # "none"

(***************************************************************************)
(* Text.  A Python str the program searches, rewrites or wraps is the      *)
(* sequence of its characters; a terminal colour code is one character.    *)
(***************************************************************************)
S_ack == <<"a", "c", "k">>
S_downtime == <<"d", "o", "w", "n", "t", "i", "m", "e">>
S_acknowledged == <<"(", "a", "c", "k", "n", "o", "w", "l", "e", "d", "g", "e", "d", ")", " ">>
S_in_downtime == <<"(", "d", "o", "w", "n", "t", "i", "m", "e", ")">>
S_DOWN == <<"D", "O", "W", "N">>
S_UP == <<"U", "P">>
S_UNKN == <<"U", "N", "K", "N">>
S_CRIT == <<"C", "R", "I", "T">>
S_WARN == <<"W", "A", "R", "N">>
S_OK == <<"O", "K">>
S_CRIT_prefix == <<"C", "R", "I", "T", " ", "-", " ">>
S_WARN_prefix == <<"W", "A", "R", "N", " ", "-", " ">>
S_UNKNOWN_prefix == <<"U", "N", "K", "N", "O", "W", "N", " ", "-", " ">>
S_Nagios_Process == <<"(", "N", "a", "g", "i", "o", "s", " ", "P", "r", "o", "c", "e", "s", "s", ")">>
S_Check_MK_inventory == <<"C", "h", "e", "c", "k", "_", "M", "K", " ", "i", "n", "v", "e", "n", "t", "o", "r", "y">>
S_Successfully_sent ==
    <<"M", "E", "S", "S", "A", "G", "E", ":", " ", "S", "u", "c", "c", "e", "s", "s", "f", "u", "l", "l", "y", " ", "s", "e", "n", "t">>
S_Service_discovery_successful ==
    <<"S", "e", "r", "v", "i", "c", "e", " ", "d", "i", "s", "c", "o", "v", "e", "r", "y", " ", "s", "u", "c", "c", "e", "s", "s", "f", "u", "l">>
S_unmonitored == <<"u", "n", "m", "o", "n", "i", "t", "o", "r", "e", "d">>

\* Python's i[k]: element k of a row, counted from 0
At(row, k) == row[k + 1]

Last(s) == s[Len(s)]

\* needle in hay
Contains(needle, hay) ==
    \E k \in 0..(Len(hay) - Len(needle)) :
        SubSeq(hay, k + 1, k + Len(needle)) = needle

StartsWith(prefix, s) ==
    Len(prefix) <= Len(s) /\ SubSeq(s, 1, Len(prefix)) = prefix

\* re.sub('^(CRIT|WARN|UNKNOWN) - ', '', detail): the pattern is anchored at
\* the start of the text, so at most one prefix is removed
SeverityPrefixes == {S_CRIT_prefix, S_WARN_prefix, S_UNKNOWN_prefix}

\* the substitution as it would be without the anchor: the first prefix found
\* anywhere in the text is removed
strip_severity_prefix_unanchored(detail) ==
    LET hits == {k \in 1..Len(detail) :
                    \E p \in SeverityPrefixes :
                        StartsWith(p, SubSeq(detail, k, Len(detail)))}
    IN IF hits = {} THEN detail
       ELSE LET k == CHOOSE h \in hits : \A j \in hits : h <= j
                p == CHOOSE q \in SeverityPrefixes :
                         StartsWith(q, SubSeq(detail, k, Len(detail)))
            IN SubSeq(detail, 1, k - 1)
                   \o SubSeq(detail, k + Len(p), Len(detail))

strip_severity_prefix(detail) ==
    IF \E p \in SeverityPrefixes : StartsWith(p, detail)
    THEN LET p == CHOOSE q \in SeverityPrefixes : StartsWith(q, detail)
         IN SubSeq(detail, Len(p) + 1, Len(detail))
    ELSE detail

\* the text up to its first line break
FirstLine(s) ==
    IF \E k \in 1..Len(s) : s[k] = "\n"
    THEN LET n == CHOOSE k \in 1..Len(s) :
                      s[k] = "\n" /\ \A j \in 1..(k - 1) : s[j] # "\n"
         IN SubSeq(s, 1, n - 1)
    ELSE s

\* re.match('.*unmonitored.*', text): '.' matches no line break and the match
\* starts at the start of the text, so the word must be in the first line
matches_unmonitored(text) == Contains(S_unmonitored, FirstLine(text))

(***************************************************************************)
(* textwrap.fill(text, width) with the default options, for text made of   *)
(* words, blanks and line breaks (no tabs, no hyphenated words).           *)
(***************************************************************************)
Whitespace == {" ", "\n"}

\* TextWrapper._munge_whitespace: every whitespace character becomes a blank
MungeWhitespace(text) ==
    [k \in 1..Len(text) |-> IF text[k] \in Whitespace THEN " " ELSE text[k]]

\* chunk.strip() == ''
IsBlank(chunk) == \A k \in 1..Len(chunk) : chunk[k] = " "

\* TextWrapper._split_chunks: maximal runs of blanks and of other characters
RunLength(text) ==
    CHOOSE n \in 1..Len(text) :
        /\ \A k \in 1..n : (text[k] = " ") = (text[1] = " ")
        /\ n < Len(text) => (text[n + 1] = " ") # (text[1] = " ")

RECURSIVE SplitChunks(_)
SplitChunks(text) ==
    IF text = <<>> THEN <<>>
    ELSE <<SubSeq(text, 1, RunLength(text))>>
             \o SplitChunks(SubSeq(text, RunLength(text) + 1, Len(text)))

RECURSIVE TotalLen(_)
TotalLen(chunks) ==
    IF chunks = <<>> THEN 0 ELSE Len(Head(chunks)) + TotalLen(Tail(chunks))

\* how many leading chunks fit on one line of the given width
RECURSIVE Fitting(_, _)
Fitting(chunks, room) ==
    IF chunks = <<>> \/ Len(Head(chunks)) > room THEN 0
    ELSE 1 + Fitting(Tail(chunks), room - Len(Head(chunks)))

\* TextWrapper._wrap_chunks; started: a line was already produced
RECURSIVE WrapChunks(_, _, _)
WrapChunks(chunks, width, started) ==
    IF chunks = <<>> THEN <<>>
    ELSE LET c0 == IF started /\ IsBlank(Head(chunks)) THEN Tail(chunks)
                   ELSE chunks
             n == Fitting(c0, width)
             cur == SubSeq(c0, 1, n)
             rest == SubSeq(c0, n + 1, Len(c0))
             \* _handle_long_word: a chunk wider than any line is cut
             long == rest # <<>> /\ Len(Head(rest)) > width
             space_left == IF width < 1 THEN 1 ELSE width - TotalLen(cur)
             cur2 == IF long
                     THEN Append(cur, SubSeq(Head(rest), 1, space_left))
                     ELSE cur
             rest2 == IF long
                      THEN <<SubSeq(Head(rest), space_left + 1, Len(Head(rest)))>>
                               \o Tail(rest)
                      ELSE rest
             cur3 == IF cur2 # <<>> /\ IsBlank(Last(cur2))
                     THEN SubSeq(cur2, 1, Len(cur2) - 1)
                     ELSE cur2
         IN (IF cur3 # <<>> THEN <<Flatten(cur3)>> ELSE <<>>)
                \o WrapChunks(rest2, width, started \/ cur3 # <<>>)

RECURSIVE JoinLines(_)
JoinLines(lines) ==
    IF lines = <<>> THEN <<>>
    ELSE IF Len(lines) = 1 THEN Head(lines)
    ELSE Head(lines) \o <<"\n">> \o JoinLines(Tail(lines))

textwrap_fill(text, width) ==
    JoinLines(WrapChunks(SplitChunks(MungeWhitespace(text)), width, FALSE))

\* int(cell) for a cell of decimal digits, and str(n) for n >= 0
Digits == <<"0", "1", "2", "3", "4", "5", "6", "7", "8", "9">>
DigitValue(c) == (CHOOSE k \in 1..10 : Digits[k] = c) - 1

RECURSIVE int(_)
int(cell) ==
    IF Len(cell) = 1 THEN DigitValue(cell[1])
    ELSE 10 * int(SubSeq(cell, 1, Len(cell) - 1)) + DigitValue(Last(cell))

RECURSIVE str(_)
str(n) ==
    IF n < 10 THEN <<Digits[n + 1]>>
    ELSE str(n \div 10) \o <<Digits[(n % 10) + 1]>>

(***************************************************************************)
(* Terminal colours: CheckMk.str_red and its siblings                      *)
(***************************************************************************)
Colored(code, s) ==
    IF print_colour THEN <<code>> \o s \o <<"<reset>">> ELSE s

str_red(s) == Colored("<fg:red>", s)
str_yellow(s) == Colored("<fg:yellow>", s)
str_blue(s) == Colored("<fg:blue>", s)
str_green(s) == Colored("<fg:green>", s)
str_orange(s) == Colored("<fg:dark_orange>", s)
str_bold(s) == Colored("<attr:bold>", s)

(***************************************************************************)
(* Problem and acknowledgement listings.  A view is the JSON answer of     *)
(* view.py: a list of rows of cells, its element zero the header row.      *)
(***************************************************************************)
\* None, and what "if x:" tests.  None and '' are both false in a condition,
\* and the program tests a host or service for truth before it compares it.
None == <<>>
Truthy(x) == x # <<>>

\* the state cell of a host row and of a service row
host_state_cell(state) ==
    IF state = S_DOWN THEN str_red(state)
    ELSE IF state = S_UNKN THEN str_orange(state)
    ELSE state

\* service_state_cell as it would be if CRIT were not among its cases
service_state_cell_without_crit(state) ==
    IF state = S_WARN THEN str_yellow(state)
    ELSE IF state = S_UNKN THEN str_orange(state)
    ELSE state

service_state_cell(state) ==
    IF state = S_CRIT THEN str_red(state)
    ELSE IF state = S_WARN THEN str_yellow(state)
    ELSE IF state = S_UNKN THEN str_orange(state)
    ELSE state

\* the icons cell decoded into its flags
ack_cell(icons) ==
    str_blue((IF Contains(S_ack, icons) THEN S_acknowledged ELSE <<>>)
                 \o (IF Contains(S_downtime, icons) THEN S_in_downtime ELSE <<>>))

\* a counter of child services: recoloured when positive
\* count_cell as it would be if every counter were recoloured
count_cell_always_coloured(n, code) == Colored(code, str(n))

count_cell(n, code) == IF n > 0 THEN Colored(code, str(n)) ELSE str(n)

\* the body of the loop of get_host_problems_table
host_problem_row(i) ==
    LET host == At(i, 0)
        address == At(i, 1)
        icons == At(i, 2)
        state == host_state_cell(At(i, 3))
        ack == ack_cell(icons)
        detail == textwrap_fill(strip_severity_prefix(At(i, 4)), 100)
        srv_ok == count_cell(int(At(i, 5)), "<fg:green>")
        srv_warn == count_cell(int(At(i, 6)), "<fg:yellow>")
        srv_crit == count_cell(int(At(i, 7)), "<fg:red>")
        srv_unkn == count_cell(int(At(i, 8)), "<fg:dark_orange>")
        srv_pend == str(int(At(i, 9)))
    IN <<state, host, address, detail, ack, srv_ok, srv_warn, srv_crit,
         srv_unkn, srv_pend>>

\* host_problems.pop(0), then one table row per remaining row
get_host_problems_table(host_problems) ==
    [k \in 1..(Len(host_problems) - 1) |-> host_problem_row(host_problems[k + 1])]

\* the body of the loop of get_service_problems_table
service_problem_row(i) ==
    LET state == service_state_cell(At(i, 0))
        host == At(i, 1)
        service == textwrap_fill(At(i, 2), 70)
        icons == At(i, 3)
        ack == ack_cell(icons)
        detail == textwrap_fill(strip_severity_prefix(At(i, 4)), 100)
        state_age == At(i, 5)
    IN <<state, host, service, detail, state_age, ack>>

get_service_problems_table(service_problems) ==
    [k \in 1..(Len(service_problems) - 1) |->
        service_problem_row(service_problems[k + 1])]

\* get_comments: r.pop(0), then every comment not written by Nagios itself
comment_row(i) ==
    <<At(i, 0), At(i, 1), At(i, 5), At(i, 6), textwrap_fill(At(i, 4), 100)>>

get_comments(r) ==
    LET kept == SelectSeq(Tail(r), LAMBDA i : ~(At(i, 0) = S_Nagios_Process))
    IN [k \in 1..Len(kept) |-> comment_row(kept[k])]

\* get_comment: the comparison made for one comment of the list
comment_matches(i, host, service) ==
    \/ Truthy(host) /\ ~Truthy(service) /\ At(i, 2) = host
    \/ Truthy(host) /\ Truthy(service) /\ At(i, 2) = host /\ At(i, 3) = service

\* get_comment as it would be if a later match replaced an earlier one
get_comment_last_match(comments, host, service) ==
    IF \E k \in 1..Len(comments) : comment_matches(comments[k], host, service)
    THEN LET last == CHOOSE k \in 1..Len(comments) :
                         /\ comment_matches(comments[k], host, service)
                         /\ \A j \in (k + 1)..Len(comments) :
                                ~comment_matches(comments[j], host, service)
         IN <<At(comments[last], 0), At(comments[last], 4)>>
    ELSE None

\* get_comment: [author, text] of the first comment that matches, or None
get_comment(comments, host, service) ==
    IF \E k \in 1..Len(comments) : comment_matches(comments[k], host, service)
    THEN LET first == CHOOSE k \in 1..Len(comments) :
                          /\ comment_matches(comments[k], host, service)
                          /\ \A j \in 1..(k - 1) :
                                 ~comment_matches(comments[j], host, service)
         IN <<At(comments[first], 0), At(comments[first], 4)>>
    ELSE None

\* the body of the loop of get_acknowledged_hosts, for a row with 'ack'
acknowledged_host_row(i, comments) ==
    LET found == get_comment(comments, At(i, 0), None)
        author == IF Truthy(found) THEN At(found, 0) ELSE <<>>
        comment == IF Truthy(found) THEN textwrap_fill(At(found, 1), 60)
                   ELSE <<>>
        state == host_state_cell(At(i, 3))
        host == At(i, 0)
        address == At(i, 1)
        detail == textwrap_fill(At(i, 4), 60)
    IN <<state, host, address, detail, author, comment>>

\* get_acknowledged_hosts loops over host_problems as received
get_acknowledged_hosts(host_problems, comments) ==
    LET acked == SelectSeq(host_problems, LAMBDA i : Contains(S_ack, At(i, 2)))
    IN [k \in 1..Len(acked) |-> acknowledged_host_row(acked[k], comments)]

\* the body of the loop of get_acknowledged_services, for a row with 'ack'
acknowledged_service_row(i, comments) ==
    LET found == get_comment(comments, At(i, 1), At(i, 2))
        author == IF Truthy(found) THEN At(found, 0) ELSE <<>>
        comment == IF Truthy(found) THEN textwrap_fill(At(found, 1), 60)
                   ELSE <<>>
        state == service_state_cell(At(i, 0))
        host == At(i, 1)
        service == At(i, 2)
        detail == textwrap_fill(At(i, 4), 60)
        since == At(i, 5)
    IN <<state, host, service, detail, since, author, comment>>

\* get_acknowledged_services loops over service_problems as received
get_acknowledged_services(service_problems, comments) ==
    LET acked == SelectSeq(service_problems,
                           LAMBDA i : Contains(S_ack, At(i, 3)))
    IN [k \in 1..Len(acked) |-> acknowledged_service_row(acked[k], comments)]

\* unknown_refresh and unmonitored_refresh: the set refresh_hosts, collected
\* from the service problems as received
Elements(s) == {s[k] : k \in 1..Len(s)}

unknown_refresh_hosts(problems) ==
    {At(alert, 1) : alert \in {a \in Elements(problems) : At(a, 0) = S_UNKN}}

unmonitored_refresh_hosts(problems) ==
    {At(alert, 1) :
        alert \in {a \in Elements(problems) :
                      /\ At(a, 2) = S_Check_MK_inventory
                      /\ matches_unmonitored(At(a, 4))}}

\* the titles of host_problem_table_headers and service_problem_table_headers
HostProblemHeaderNames ==
    <<<<"s", "t", "a", "t", "e">>,
      <<"h", "o", "s", "t">>,
      <<"a", "d", "d", "r", "e", "s", "s">>,
      <<"d", "e", "t", "a", "i", "l">>,
      <<"a", "c", "k", "n", "o", "w", "l", "e", "d", "g", "e", "d">>,
      <<"s", "r", "v", "_", "o", "k">>,
      <<"s", "r", "v", "_", "w", "a", "r", "n">>,
      <<"s", "r", "v", "_", "c", "r", "i", "t">>,
      <<"s", "r", "v", "_", "u", "n", "k", "n">>,
      <<"s", "r", "v", "_", "p", "e", "n", "d">>>>
ServiceProblemHeaderNames ==
    <<<<"s", "t", "a", "t", "e">>,
      <<"h", "o", "s", "t">>,
      <<"s", "e", "r", "v", "i", "c", "e">>,
      <<"d", "e", "t", "a", "i", "l">>,
      <<"s", "t", "a", "t", "e", " ", "a", "g", "e">>,
      <<"a", "c", "k", "n", "o", "w", "l", "e", "d", "g", "e", "d">>>>
S_host_problems ==
    <<"h", "o", "s", "t", " ", "p", "r", "o", "b", "l", "e", "m", "s">>
S_service_problems ==
    <<"s", "e", "r", "v", "i", "c", "e", " ", "p", "r", "o", "b", "l", "e", "m", "s">>

host_problem_table_headers ==
    [k \in 1..Len(HostProblemHeaderNames) |-> str_bold(HostProblemHeaderNames[k])]

service_problem_table_headers ==
    [k \in 1..Len(ServiceProblemHeaderNames) |->
        str_bold(ServiceProblemHeaderNames[k])]

\* what a table listing prints: nothing for an empty table, else a blank
\* line, the title, a blank line and the table under its headers
table_lines(title, headers, rows) ==
    IF Len(rows) > 0
    THEN <<Message("", <<>>), Message("{}", <<str_bold(title)>>),
           Message("", <<>>), Message("tabulate", headers)>>
    ELSE <<>>

\* list_host_problems_table as it would be if the column were deleted from the
\* headers alone
list_host_problems_table_keeps_cells(view, ignore_status) ==
    [headers |-> IF ~ignore_status THEN DelAt(host_problem_table_headers, 4)
                 ELSE host_problem_table_headers,
     rows |-> get_host_problems_table(view)]

\* list_host_problems_table: the headers and the rows of the table printed
list_host_problems_table(view, ignore_status) ==
    LET host_problems_table == get_host_problems_table(view)
        headers == host_problem_table_headers
    IN IF ~ignore_status
       THEN [headers |-> DelAt(headers, 4),
             rows |-> [k \in 1..Len(host_problems_table) |->
                          DelAt(host_problems_table[k], 4)]]
       ELSE [headers |-> headers, rows |-> host_problems_table]

\* list_service_problems_table: the headers and the rows of the table printed
list_service_problems_table(view, ignore_status) ==
    LET service_problems_table == get_service_problems_table(view)
        headers == service_problem_table_headers
    IN IF ~ignore_status
       THEN [headers |-> DelAt(headers, 5),
             rows |-> [k \in 1..Len(service_problems_table) |->
                          DelAt(service_problems_table[k], 5)]]
       ELSE [headers |-> headers, rows |-> service_problems_table]

HostProblemsHeader ==
    <<<<"h", "o", "s", "t">>,
      <<"h", "o", "s", "t", "_", "a", "d", "d", "r", "e", "s", "s">>,
      <<"h", "o", "s", "t", "_", "i", "c", "o", "n", "s">>,
      <<"h", "o", "s", "t", "_", "s", "t", "a", "t", "e">>,
      <<"h", "o", "s", "t", "_", "p", "l", "u", "g", "i", "n", "_", "o", "u", "t", "p", "u", "t">>,
      <<"n", "u", "m", "_", "s", "e", "r", "v", "i", "c", "e", "s", "_", "o", "k">>,
      <<"n", "u", "m", "_", "s", "e", "r", "v", "i", "c", "e", "s", "_", "w", "a", "r", "n">>,
      <<"n", "u", "m", "_", "s", "e", "r", "v", "i", "c", "e", "s", "_", "c", "r", "i", "t">>,
      <<"n", "u", "m", "_", "s", "e", "r", "v", "i", "c", "e", "s", "_", "u", "n", "k", "n", "o", "w", "n">>,
      <<"n", "u", "m", "_", "s", "e", "r", "v", "i", "c", "e", "s", "_", "p", "e", "n", "d", "i", "n", "g">>>>
HostProblemsHeaderAck ==
    <<<<"h", "o", "s", "t">>,
      <<"h", "o", "s", "t", "_", "a", "d", "d", "r", "e", "s", "s">>,
      <<"h", "o", "s", "t", "_", "a", "c", "k", "_", "i", "c", "o", "n", "s">>,
      <<"h", "o", "s", "t", "_", "s", "t", "a", "t", "e">>,
      <<"h", "o", "s", "t", "_", "p", "l", "u", "g", "i", "n", "_", "o", "u", "t", "p", "u", "t">>,
      <<"n", "u", "m", "_", "s", "e", "r", "v", "i", "c", "e", "s", "_", "o", "k">>,
      <<"n", "u", "m", "_", "s", "e", "r", "v", "i", "c", "e", "s", "_", "w", "a", "r", "n">>,
      <<"n", "u", "m", "_", "s", "e", "r", "v", "i", "c", "e", "s", "_", "c", "r", "i", "t">>,
      <<"n", "u", "m", "_", "s", "e", "r", "v", "i", "c", "e", "s", "_", "u", "n", "k", "n", "o", "w", "n">>,
      <<"n", "u", "m", "_", "s", "e", "r", "v", "i", "c", "e", "s", "_", "p", "e", "n", "d", "i", "n", "g">>>>
ServiceProblemsHeader ==
    <<<<"s", "e", "r", "v", "i", "c", "e", "_", "s", "t", "a", "t", "e">>,
      <<"h", "o", "s", "t">>,
      <<"s", "e", "r", "v", "i", "c", "e", "_", "d", "e", "s", "c", "r", "i", "p", "t", "i", "o", "n">>,
      <<"s", "e", "r", "v", "i", "c", "e", "_", "i", "c", "o", "n", "s">>,
      <<"s", "v", "c", "_", "p", "l", "u", "g", "i", "n", "_", "o", "u", "t", "p", "u", "t">>,
      <<"s", "v", "c", "_", "s", "t", "a", "t", "e", "_", "a", "g", "e">>>>
ServiceProblemsHeaderAck ==
    <<<<"s", "e", "r", "v", "i", "c", "e", "_", "s", "t", "a", "t", "e">>,
      <<"h", "o", "s", "t">>,
      <<"s", "e", "r", "v", "i", "c", "e", "_", "d", "e", "s", "c", "r", "i", "p", "t", "i", "o", "n">>,
      <<"s", "e", "r", "v", "i", "c", "e", "_", "a", "c", "k", "_", "i", "c", "o", "n", "s">>,
      <<"s", "v", "c", "_", "p", "l", "u", "g", "i", "n", "_", "o", "u", "t", "p", "u", "t">>,
      <<"s", "v", "c", "_", "s", "t", "a", "t", "e", "_", "a", "g", "e">>>>
CommentsHeader ==
    <<<<"c", "o", "m", "m", "e", "n", "t", "_", "a", "u", "t", "h", "o", "r">>,
      <<"c", "o", "m", "m", "e", "n", "t", "_", "t", "i", "m", "e">>,
      <<"c", "o", "m", "m", "e", "n", "t", "_", "e", "x", "p", "i", "r", "e", "s">>,
      <<"c", "o", "m", "m", "e", "n", "t", "_", "e", "n", "t", "r", "y", "_", "t", "y", "p", "e">>,
      <<"c", "o", "m", "m", "e", "n", "t", "_", "c", "o", "m", "m", "e", "n", "t">>,
      <<"h", "o", "s", "t">>,
      <<"s", "e", "r", "v", "i", "c", "e", "_", "d", "e", "s", "c", "r", "i", "p", "t", "i", "o", "n">>>>
HostRowWeb1 ==
    <<<<"w", "e", "b", "1">>,
      <<"1", "0", ".", "0", ".", "0", ".", "1">>,
      <<"a", "c", "k">>,
      <<"D", "O", "W", "N">>,
      <<"C", "R", "I", "T", " ", "-", " ", "d", "o", "w", "n">>,
      <<"3">>,
      <<"0">>,
      <<"1">>,
      <<"0">>,
      <<"0">>>>
HostRowDb2 ==
    <<<<"d", "b", "2">>,
      <<"1", "0", ".", "0", ".", "0", ".", "2">>,
      <<>>,
      <<"U", "N", "K", "N">>,
      <<"n", "o", " ", "r", "o", "u", "t", "e">>,
      <<"0">>,
      <<"2">>,
      <<"0">>,
      <<"1">>,
      <<"4">>>>
HostRowGw3 ==
    <<<<"g", "w", "3">>,
      <<"1", "0", ".", "0", ".", "0", ".", "3">>,
      <<"a", "c", "k", " ", "d", "o", "w", "n", "t", "i", "m", "e">>,
      <<"U", "P">>,
      <<"W", "A", "R", "N", " ", "-", " ", "s", "l", "o", "w">>,
      <<"1", "2">>,
      <<"0">>,
      <<"0">>,
      <<"0">>,
      <<"0">>>>
ServiceRowCpu ==
    <<<<"C", "R", "I", "T">>,
      <<"w", "e", "b", "1">>,
      <<"c", "p", "u">>,
      <<"a", "c", "k">>,
      <<"C", "R", "I", "T", " ", "-", " ", "l", "o", "a", "d", " ", "9">>,
      <<"5", "m">>>>
ServiceRowDisk ==
    <<<<"U", "N", "K", "N">>,
      <<"d", "b", "2">>,
      <<"d", "i", "s", "k">>,
      <<>>,
      <<"U", "N", "K", "N", "O", "W", "N", " ", "-", " ", "t", "i", "m", "e", "o", "u", "t">>,
      <<"2", "h">>>>
ServiceRowInventory ==
    <<<<"W", "A", "R", "N">>,
      <<"g", "w", "3">>,
      <<"C", "h", "e", "c", "k", "_", "M", "K", " ", "i", "n", "v", "e", "n", "t", "o", "r", "y">>,
      <<"a", "c", "k", " ", "d", "o", "w", "n", "t", "i", "m", "e">>,
      <<"W", "A", "R", "N", " ", "-", " ", "2", " ", "u", "n", "m", "o", "n", "i", "t", "o", "r", "e", "d", " ", "s", "e", "r", "v", "i", "c", "e", "s">>,
      <<"1", "d">>>>
CommentAnnWeb1 ==
    <<<<"a", "n", "n">>,
      <<"0", "9", ":", "0", "0">>,
      <<>>,
      <<"u", "s", "e", "r">>,
      <<"f", "i", "x", "i", "n", "g", " ", "i", "t">>,
      <<"w", "e", "b", "1">>,
      <<>>>>
CommentBobCpu ==
    <<<<"b", "o", "b">>,
      <<"0", "9", ":", "0", "5">>,
      <<>>,
      <<"u", "s", "e", "r">>,
      <<"c", "p", "u", " ", "i", "s", " ", "h", "o", "t">>,
      <<"w", "e", "b", "1">>,
      <<"c", "p", "u">>>>
CommentNagios ==
    <<<<"(", "N", "a", "g", "i", "o", "s", " ", "P", "r", "o", "c", "e", "s", "s", ")">>,
      <<"0", "9", ":", "1", "0">>,
      <<>>,
      <<"f", "l", "a", "p">>,
      <<"f", "l", "a", "p", "p", "i", "n", "g">>,
      <<"d", "b", "2">>,
      <<>>>>
CommentBobWeb1 ==
    <<<<"b", "o", "b">>,
      <<"0", "9", ":", "1", "5">>,
      <<>>,
      <<"u", "s", "e", "r">>,
      <<"k", "n", "o", "w", "n", "\n", "p", "r", "o", "b", "l", "e", "m">>,
      <<"w", "e", "b", "1">>,
      <<>>>>

HostRowBare ==
    <<<<>>,
      <<>>,
      <<>>,
      <<>>,
      <<>>,
      <<"0">>,
      <<"0">>,
      <<"0">>,
      <<"0">>,
      <<"0">>>>
\* a host row whose state cell holds a code of the service listings
HostRowMail5 ==
    <<<<"m", "a", "i", "l", "5">>,
      <<"1", "0", ".", "0", ".", "0", ".", "5">>,
      <<"a", "c", "k">>,
      <<"W", "A", "R", "N">>,
      <<"s", "m", "t", "p", " ", "s", "l", "o", "w">>,
      <<"2">>,
      <<"1">>,
      <<"0">>,
      <<"0">>,
      <<"0">>>>
ServiceRowBare ==
    <<<<>>,
      <<>>,
      <<>>,
      <<>>,
      <<>>,
      <<>>>>
ServiceRowScenario ==
    <<<<"C", "R", "I", "T">>,
      <<"h", "o", "s", "t", "1">>,
      <<"s", "v", "c", "A">>,
      <<"a", "c", "k">>,
      <<"d", "e", "t", "a", "i", "l", "1">>,
      <<"5", "m">>>>

\* what the server answers: a header row, then up to MaxProblems rows
HostRowPool ==
    {HostRowWeb1, HostRowDb2, HostRowGw3, HostRowBare, HostRowMail5}
ServiceRowPool ==
    {ServiceRowCpu, ServiceRowDisk, ServiceRowInventory, ServiceRowBare,
     ServiceRowScenario}
CommentPool == {CommentAnnWeb1, CommentBobCpu, CommentNagios, CommentBobWeb1}

HostNames == {At(i, 0) : i \in HostRowPool}
ServiceNames == {At(i, 2) : i \in ServiceRowPool}

SeqsUpTo(pool, n) == UNION {[1..k -> pool] : k \in 0..n}

HostViews ==
    {<<h>> \o rows : h \in {HostProblemsHeader, HostProblemsHeaderAck},
                     rows \in SeqsUpTo(HostRowPool, MaxProblems)}
ServiceViews ==
    {<<h>> \o rows : h \in {ServiceProblemsHeader, ServiceProblemsHeaderAck},
                     rows \in SeqsUpTo(ServiceRowPool, MaxProblems)}
CommentViews ==
    {<<CommentsHeader>> \o rows : rows \in SeqsUpTo(CommentPool, MaxComments)}

(***************************************************************************)
(* SpecListing: one listing operation applied to the answers of the server *)
(***************************************************************************)
InitListing ==
    /\ print_colour \in BOOLEAN
    /\ ListingIdle
    /\ page = <<>>
    /\ ScraperNew
    /\ RunIdle

HostProblemsTable ==
    /\ op = "none"
    /\ \E r \in HostViews :
        /\ host_view' = r
        /\ table' = get_host_problems_table(r)
    /\ op' = "get_host_problems_table"
    /\ UNCHANGED <<service_view, comments_view, wanted, refresh_hosts, print_colour, scraperVars,
                   runVars>>

ServiceProblemsTable ==
    /\ op = "none"
    /\ \E r \in ServiceViews :
        /\ service_view' = r
        /\ table' = get_service_problems_table(r)
    /\ op' = "get_service_problems_table"
    /\ UNCHANGED <<host_view, comments_view, wanted, refresh_hosts, print_colour, scraperVars,
                   runVars>>

Comments ==
    /\ op = "none"
    /\ \E c \in CommentViews :
        /\ comments_view' = c
        /\ table' = get_comments(c)
    /\ op' = "get_comments"
    /\ UNCHANGED <<host_view, service_view, wanted, refresh_hosts, print_colour, scraperVars,
                   runVars>>

AcknowledgedHosts ==
    /\ op = "none"
    /\ \E r \in HostViews, c \in CommentViews :
        /\ host_view' = r
        /\ comments_view' = c
        /\ table' = get_acknowledged_hosts(r, get_comments(c))
    /\ op' = "get_acknowledged_hosts"
    /\ UNCHANGED <<service_view, wanted, refresh_hosts, print_colour, scraperVars,
                   runVars>>

AcknowledgedServices ==
    /\ op = "none"
    /\ \E r \in ServiceViews, c \in CommentViews :
        /\ service_view' = r
        /\ comments_view' = c
        /\ table' = get_acknowledged_services(r, get_comments(c))
    /\ op' = "get_acknowledged_services"
    /\ UNCHANGED <<host_view, wanted, refresh_hosts, print_colour, scraperVars,
                   runVars>>

UnknownRefreshHosts ==
    /\ op = "none"
    /\ \E r \in ServiceViews :
        /\ service_view' = r
        /\ refresh_hosts' = unknown_refresh_hosts(r)
    /\ op' = "unknown_refresh"
    /\ UNCHANGED <<host_view, comments_view, wanted, table, print_colour, scraperVars,
                   runVars>>

UnmonitoredRefreshHosts ==
    /\ op = "none"
    /\ \E r \in ServiceViews :
        /\ service_view' = r
        /\ refresh_hosts' = unmonitored_refresh_hosts(r)
    /\ op' = "unmonitored_refresh"
    /\ UNCHANGED <<host_view, comments_view, wanted, table, print_colour, scraperVars,
                   runVars>>

ListHostProblemsTable ==
    /\ op = "none"
    /\ \E r \in HostViews, ignore_status \in BOOLEAN :
        LET listed == list_host_problems_table(r, ignore_status)
        IN /\ host_view' = r
           /\ wanted' = <<ignore_status>>
           /\ table' = listed.rows
           /\ stdout' = stdout \o
                table_lines(S_host_problems, listed.headers, listed.rows)
    /\ op' = "list_host_problems_table"
    /\ UNCHANGED <<service_view, comments_view, refresh_hosts, print_colour,
                   scraperVars, pc, sessionVars, args, requests, exit_code>>

ListServiceProblemsTable ==
    /\ op = "none"
    /\ \E r \in ServiceViews, ignore_status \in BOOLEAN :
        LET listed == list_service_problems_table(r, ignore_status)
        IN /\ service_view' = r
           /\ wanted' = <<ignore_status>>
           /\ table' = listed.rows
           /\ stdout' = stdout \o
                table_lines(S_service_problems, listed.headers, listed.rows)
    /\ op' = "list_service_problems_table"
    /\ UNCHANGED <<host_view, comments_view, refresh_hosts, print_colour,
                   scraperVars, pc, sessionVars, args, requests, exit_code>>

\* get_comment for a host, or for a service of a host
GetComment ==
    /\ op = "none"
    /\ \E c \in CommentViews, host \in HostNames,
          service \in ServiceNames \cup {None} :
        /\ comments_view' = c
        /\ wanted' = <<host, service>>
        /\ table' = get_comment(get_comments(c), host, service)
    /\ op' = "get_comment"
    /\ UNCHANGED <<host_view, service_view, refresh_hosts, print_colour, scraperVars,
                   runVars>>

NextListing ==
    \/ HostProblemsTable
    \/ GetComment
    \/ ServiceProblemsTable
    \/ Comments
    \/ AcknowledgedHosts
    \/ AcknowledgedServices
    \/ UnknownRefreshHosts
    \/ UnmonitoredRefreshHosts
    \/ ListHostProblemsTable
    \/ ListServiceProblemsTable

SpecListing == InitListing /\ [][NextListing]_vars

(***************************************************************************)
(* The terminal.  input() gives a line, or raises KeyboardInterrupt or     *)
(* EOFError; print adds a line to stdout.  A printed line is kept as its   *)
(* format string and the values formatted into it.                         *)
(***************************************************************************)
TypedLine(text) == [key |-> "line", text |-> text]
TypedInterrupt == [key |-> "interrupt", text |-> <<>>]

UpperCase ==
    <<"A", "B", "C", "D", "E", "F", "G", "H", "I", "J", "K", "L", "M",
      "N", "O", "P", "Q", "R", "S", "T", "U", "V", "W", "X", "Y", "Z">>
LowerCase ==
    <<"a", "b", "c", "d", "e", "f", "g", "h", "i", "j", "k", "l", "m",
      "n", "o", "p", "q", "r", "s", "t", "u", "v", "w", "x", "y", "z">>

\* str.lower
Lower(s) ==
    [k \in 1..Len(s) |->
        IF \E u \in 1..26 : UpperCase[u] = s[k]
        THEN LowerCase[CHOOSE u \in 1..26 : UpperCase[u] = s[k]]
        ELSE s[k]]

\* str.strip
RECURSIVE LStrip(_)
LStrip(s) ==
    IF s # <<>> /\ Head(s) \in Whitespace THEN LStrip(Tail(s)) ELSE s

RECURSIVE RStrip(_)
RStrip(s) ==
    IF s # <<>> /\ Last(s) \in Whitespace THEN RStrip(PopLast(s)) ELSE s

Strip(s) == LStrip(RStrip(s))

\* str.rjust
RECURSIVE rjust(_, _)
rjust(s, width) == IF Len(s) >= width THEN s ELSE rjust(<<" ">> \o s, width)

\* re.sub of one character by a string
Substitute(old, new, s) ==
    Flatten([k \in 1..Len(s) |-> IF s[k] = old THEN new ELSE <<s[k]>>])

\* int(line): surrounding whitespace and one sign are accepted; anything but
\* digits after that is a ValueError
IsDigits(s) == s # <<>> /\ \A k \in 1..Len(s) : \E d \in 1..10 : Digits[d] = s[k]

Unsigned(s) == IF s # <<>> /\ Head(s) \in {"-", "+"} THEN Tail(s) ELSE s

IsIntLiteral(line) == IsDigits(Unsigned(Strip(line)))

IntValue(line) ==
    LET s == Strip(line)
    IN IF Head(s) = "-" THEN 0 - int(Unsigned(s)) ELSE int(Unsigned(s))

(***************************************************************************)
(* The prompts.  Each gives what the function returns for one thing read   *)
(* from the terminal: again is TRUE where the function calls itself, and   *)
(* so asks once more.                                                      *)
(***************************************************************************)
\* get_problem_id: value 0 stands for None
get_problem_id(input, total_problems) ==
    IF input.key = "interrupt" THEN [again |-> FALSE, value |-> 0]
    ELSE IF ~IsIntLiteral(input.text) THEN [again |-> TRUE, value |-> 0]
    ELSE LET problem_id == IntValue(input.text)
         IN IF 1 <= problem_id /\ problem_id <= total_problems
            THEN [again |-> FALSE, value |-> problem_id]
            ELSE [again |-> TRUE, value |-> 0]

get_acknowledge_comment(input) ==
    IF input.key = "interrupt" THEN [again |-> FALSE, value |-> None]
    ELSE LET comment == Strip(input.text)
         IN IF comment # <<>>
            THEN [again |-> FALSE, value |-> Substitute(";", <<":">>, comment)]
            ELSE [again |-> TRUE, value |-> None]

\* yes_no as it would be if an interrupt counted as the default answer
yes_no_interrupt_is_yes(input) ==
    LET a == Strip(Lower(input.text))
    IN IF input.key = "interrupt" \/ a = <<>> \/ SubSeq(a, 1, 1) = <<"y">>
       THEN "True"
       ELSE IF SubSeq(a, 1, 1) = <<"n">> THEN "False" ELSE "again"

\* yes_no: "True", "False", "None", or "again"
yes_no(input) ==
    IF input.key = "interrupt" THEN "None"
    ELSE LET a == Strip(Lower(input.text))
         IN IF a = <<>> \/ SubSeq(a, 1, 1) = <<"y">> THEN "True"
            ELSE IF SubSeq(a, 1, 1) = <<"n">> THEN "False"
            ELSE "again"

(***************************************************************************)
(* The numbered tables of acknowledge and unacknowledge                    *)
(***************************************************************************)
\* the label as it would be if the counter were printed as it stands
label_of_counter(i) == <<"[", " ">> \o rjust(str(i), 3) \o <<" ", "]">>

\* '[ ' + str(i + 1).rjust(3) + ' ]'
label(i) == <<"[", " ">> \o rjust(str(i + 1), 3) \o <<" ", "]">>

\* row.insert(0, label); i += 1, for every row, i being first at the start
numbered(rows, first) ==
    [k \in 1..Len(rows) |-> <<label(first + k - 1)>> \o rows[k]]

\* acknowledge: the two tables as printed
acknowledge_host_table(view) ==
    LET host_problems == get_host_problems_table(view)
    IN numbered([k \in 1..Len(host_problems) |-> DelAt(host_problems[k], 4)], 0)

acknowledge_service_table(view, i) ==
    LET service_problems == get_service_problems_table(view)
    IN numbered([k \in 1..Len(service_problems) |->
                    DelAt(service_problems[k], 5)], i)

\* unacknowledge: the two tables as printed
unacknowledge_host_table(view, comments) ==
    numbered(get_acknowledged_hosts(view, comments), 0)

unacknowledge_service_table(view, comments, i) ==
    numbered(get_acknowledged_services(view, comments), i)

\* the problem a selection names: <<state, host, service, detail>>
acknowledge_selection(host_problems, service_problems, problem_id) ==
    IF problem_id <= Len(host_problems)
    THEN LET row == At(host_problems, problem_id - 1)
         IN <<At(row, 1), At(row, 2), None, At(row, 4)>>
    ELSE LET row == At(service_problems, problem_id - Len(host_problems) - 1)
         IN <<At(row, 1), At(row, 2), At(row, 3), At(row, 4)>>

unacknowledge_selection(acknowledged_host_problems, acknowledged_service_problems, problem_id) ==
    IF problem_id <= Len(acknowledged_host_problems)
    THEN LET row == At(acknowledged_host_problems, problem_id - 1)
         IN <<At(row, 1), At(row, 2), None, At(row, 4)>>
    ELSE LET row == At(acknowledged_service_problems,
                       problem_id - Len(acknowledged_host_problems) - 1)
         IN <<At(row, 1), At(row, 2), At(row, 3), At(row, 4)>>

\* print_acknowledgement: the block printed before the confirmation
print_acknowledgement(state, host, service, detail, comment) ==
    LET margin == <<" ", " ", " ", " ", " ", " ", " ", " ", " ", " ">>
    IN <<Message("state: {} host: {} service: {} detail: {} comment: {}",
                 <<state, host, service,
                   Substitute("\n", <<"\n">> \o margin, detail), comment>>)>>

(***************************************************************************)
(* Requests.  A request is kept as what it asks for, the host and service  *)
(* it names, and the answer to it where the program searches the answer.   *)
(***************************************************************************)
Request(kind, host, service, answer) ==
    [kind |-> kind, host |-> host, service |-> service, answer |-> answer]

Sent(kind) == \E k \in 1..Len(requests) : requests[k].kind = kind

\* 'MESSAGE: Successfully sent' in r.text
Succeeded(answer) == Contains(S_Successfully_sent, answer)

\* the view actions: what each prints for an answer
acknowledge_problem_lines(host, service, answer) ==
    IF Succeeded(answer)
    THEN IF Truthy(service)
         THEN <<Message("service problem {} on host {} was acknowledged.",
                        <<str_green(service), str_green(host)>>)>>
         ELSE <<Message("host problem on {} was acknowledged.",
                        <<str_green(host)>>)>>
    ELSE IF Truthy(service)
         THEN <<Message("unable to acknowledge service problem {} on host {}",
                        <<str_red(service), str_red(host)>>)>>
         ELSE <<Message("unable to acknowledge host problem on {}.",
                        <<str_red(host)>>)>>

unacknowledge_problem_lines(host, service, answer) ==
    IF Succeeded(answer)
    THEN IF Truthy(service)
         THEN <<Message("service problem {} on host {} was un-acknowledged.",
                        <<str_green(service), str_green(host)>>)>>
         ELSE <<Message("host problem on {} was un-acknowledged.",
                        <<str_green(host)>>)>>
    ELSE IF Truthy(service)
         THEN <<Message("unable to un-acknowledge service problem {} on host {}",
                        <<str_red(service), str_red(host)>>)>>
         ELSE <<Message("unable to un-acknowledge host problem on {}.",
                        <<str_red(host)>>)>>

downtime_add_minutes_lines(hostname, service, minutes, answer) ==
    IF Succeeded(answer)
    THEN IF Truthy(service)
         THEN <<Message("service {} on host {} successfully placed in downtime for {} minutes",
                        <<str_green(service), str_green(hostname), str(minutes)>>)>>
         ELSE <<Message("host {} successfully placed in downtime for {} minutes",
                        <<str_green(hostname), str(minutes)>>)>>
    ELSE <<>>

downtime_add_period_lines(hostname, service, answer) ==
    IF Succeeded(answer)
    THEN IF Truthy(service)
         THEN <<Message("service {} on host {} successfully placed in downtime {}",
                        <<str_green(service), str_green(hostname)>>)>>
         ELSE <<Message("host {} successfully placed in downtime {}",
                        <<str_green(hostname)>>)>>
    ELSE <<>>

downtime_remove_lines(hostname, service, answer) ==
    IF Succeeded(answer)
    THEN IF Truthy(service)
         THEN <<Message("service {} on host {} successfully removed from downtime",
                        <<str_green(service), str_green(hostname)>>)>>
         ELSE <<Message("host {} successfully removed from downtime ",
                        <<str_green(hostname)>>)>>
    ELSE IF Truthy(service)
         THEN <<Message("could not remove downtime on service {} on host {}.",
                        <<str_red(service), str_red(hostname)>>)>>
         ELSE <<Message("could not remove downtime on host {}.",
                        <<str_red(hostname)>>)>>

(***************************************************************************)
(* add_host and its preflight check                                        *)
(***************************************************************************)
\* re.match(IP_REGEXP, ip): four groups of one to three digits, with dots
IsIpLiteral(ip) ==
    \E a, b, c \in 1..Len(ip) :
        /\ a < b /\ b < c
        /\ \A k \in 1..Len(ip) :
              IF k \in {a, b, c} THEN ip[k] = "."
              ELSE \E d \in 1..10 : Digits[d] = ip[k]
        /\ {a - 1, b - a - 1, c - b - 1, Len(ip) - c} \subseteq 1..3

\* check_site_exists over what get_sites returned: "True", "False", or
\* "IndexError" where a row without cells comes before any match
check_site_exists(rows, site) ==
    LET stops == {k \in 1..Len(rows) : rows[k] = <<>> \/ At(rows[k], 0) = site}
    IN IF stops = {} THEN "False"
       ELSE LET first == CHOOSE k \in stops : \A j \in stops : k <= j
            IN IF rows[first] = <<>> THEN "IndexError" ELSE "True"

\* the checks of the name and of the address, shared by the two below
dns_check(resolvable, a) ==
    IF ~Truthy(a.ip) /\ ~a.ignore_dns /\ a.hostname \notin resolvable
    THEN "hostname"
    ELSE IF /\ Truthy(a.ip) /\ ~a.ignore_dns
            /\ ~IsIpLiteral(a.ip) /\ a.ip \notin resolvable
    THEN "ip"
    ELSE "pass"

\* the preflight check as it would be if a missing folder were always created
preflight_creates_folder(scraped, resolvable, folders, a) ==
    IF scraped.exc # "none" THEN "crash"
    ELSE IF check_site_exists(scraped.rows, a.site) = "IndexError" THEN "crash"
    ELSE IF check_site_exists(scraped.rows, a.site) = "False" THEN "site"
    ELSE dns_check(resolvable, a)

\* what stops add_host_preflight_check, in the order of its checks: "crash"
\* where get_sites or check_site_exists raises, "pass" where nothing stops it
add_host_preflight_check(scraped, resolvable, folders, a) ==
    IF scraped.exc # "none" THEN "crash"
    ELSE IF check_site_exists(scraped.rows, a.site) = "IndexError" THEN "crash"
    ELSE IF check_site_exists(scraped.rows, a.site) = "False" THEN "site"
    ELSE IF dns_check(resolvable, a) # "pass" THEN dns_check(resolvable, a)
    ELSE IF a.folder # "" /\ a.folder \notin folders /\ ~a.folder_create
    THEN "folder"
    ELSE "pass"

\* what add_host_preflight_check prints
add_host_preflight_lines(stopped, folders, a) ==
    IF stopped = "site"
    THEN <<Message("error: the Check_MK site {} does not exist", <<a.site>>)>>
    ELSE IF stopped = "hostname"
    THEN <<Message("error: unable to resolve hostname: {}",
                   <<str_red(a.hostname)>>)>>
    ELSE IF stopped = "ip"
    THEN <<Message("error: the IP parameter must be either an IP address or a resolvable FQDN",
                   <<str_red(a.ip)>>)>>
    ELSE IF stopped = "folder"
    THEN <<Message("error: the folder {} does not exist", <<a.folder>>)>>
    ELSE IF stopped = "pass" /\ a.folder # "" /\ a.folder \notin folders
    THEN <<Message("the folder {} does not exist. it will be created.",
                   <<a.folder>>)>>
    ELSE <<>>

\* the requests add_host_preflight_check makes
add_host_preflight_requests(stopped, a) ==
    <<Request("sites", None, None, <<>>)>>
        \o (IF stopped \in {"folder", "pass"} /\ a.folder # ""
            THEN <<Request("get_all_folders", None, None, <<>>)>> ELSE <<>>)

\* refresh
refresh_lines(hostname, result) ==
    <<Message("refreshing host check configuration on {}: ",
              <<str_green(hostname)>>),
      IF Contains(S_Service_discovery_successful, result)
      THEN Message("{}", <<Lower(result)>>)
      ELSE Message("service discovery unsuccessful.", <<str_red(hostname)>>)>>

\* activate
activate_lines(result_code) ==
    <<Message("activating changes, this may take some time", <<>>),
      IF result_code = 0
      THEN Message("changes activated successfully on these sites: ", <<>>)
      ELSE Message("{}", <<>>)>>

\* re.sub(pattern, '', s) for a pattern of plain characters: every
\* occurrence is removed, from left to right
RECURSIVE re_sub(_, _)
re_sub(pattern, s) ==
    IF s = <<>> THEN <<>>
    ELSE IF StartsWith(pattern, s)
    THEN re_sub(pattern, SubSeq(s, Len(pattern) + 1, Len(s)))
    ELSE <<Head(s)>> \o re_sub(pattern, Tail(s))

S_Check_MK_exception ==
    <<"C", "h", "e", "c", "k", "_", "M", "K", " ", "e", "x", "c", "e", "p", "t", "i", "o", "n", ":", " ">>

\* add_host as it would be if a refused request were sent a second time
add_host_requests_retried(a, mode, activate, result_code, result) ==
    LET request == [kind |-> "add_host", host |-> a.hostname, service |-> None,
                    answer |-> result, result_code |-> result_code,
                    folder |-> a.folder, site |-> a.site,
                    ip |-> a.ip, tag_criticality |-> ""]
    IN IF result_code = 0 THEN <<request>> ELSE <<request, request>>

\* add_host: the requests it makes and what it prints
add_host_requests(a, mode, activate, result_code, result) ==
    <<[kind |-> "add_host", host |-> a.hostname, service |-> None,
       answer |-> result, result_code |-> result_code,
       folder |-> a.folder, site |-> a.site, ip |-> a.ip,
       tag_criticality |-> IF mode = "testing" THEN "criticality-test"
                           ELSE IF mode = "disabled" THEN "criticality-offline"
                           ELSE ""]>>
        \o (IF result_code = 0 /\ mode # "disabled"
            THEN <<Request("discover_services", a.hostname, None, <<>>)>>
            ELSE <<>>)
        \o (IF result_code = 0 /\ activate
            THEN <<Request("activate_changes", None, None, <<>>)>>
            ELSE <<>>)

\* add_host as it would be if the message of the server were printed with
\* its prefix
add_host_lines_keeps_prefix(a, mode, activate, result_code, result, discovery, activated) ==
    IF result_code = 0
    THEN <<Message("host {} successfully added.", <<str_green(a.hostname)>>)>>
             \o (IF mode # "disabled"
                 THEN <<Message(" discovering services", <<>>)>>
                          \o refresh_lines(a.hostname, discovery)
                 ELSE <<Message("", <<>>)>>)
             \o (IF activate THEN activate_lines(activated) ELSE <<>>)
    ELSE <<Message("error: {}", <<Lower(result)>>)>>

add_host_lines(a, mode, activate, result_code, result, discovery, activated) ==
    IF result_code = 0
    THEN <<Message("host {} successfully added.", <<str_green(a.hostname)>>)>>
             \o (IF mode # "disabled"
                 THEN <<Message(" discovering services", <<>>)>>
                          \o refresh_lines(a.hostname, discovery)
                 ELSE <<Message("", <<>>)>>)
             \o (IF activate THEN activate_lines(activated) ELSE <<>>)
    ELSE <<Message("error: {}",
                   <<Lower(re_sub(S_Check_MK_exception, result))>>)>>

(***************************************************************************)
(* What a run of a command is given: the answers of the server, the lines  *)
(* typed, the arguments                                                    *)
(***************************************************************************)
HostRowApp4 ==
    <<<<"a", "p", "p", "4">>,
      <<"1", "0", ".", "0", ".", "0", ".", "4">>,
      <<>>,
      <<"D", "O", "W", "N">>,
      <<"C", "R", "I", "T", " ", "-", " ", "n", "o", " ", "p", "i", "n", "g", "\n", "s", "i", "n", "c", "e", " ", "b", "o", "o", "t">>,
      <<"0">>,
      <<"0">>,
      <<"0">>,
      <<"0">>,
      <<"2">>>>
ServiceRowMem ==
    <<<<"W", "A", "R", "N">>,
      <<"d", "b", "2">>,
      <<"m", "e", "m">>,
      <<>>,
      <<"W", "A", "R", "N", " ", "-", " ", "9", "1", " ", "p", "e", "r", "c", "e", "n", "t", " ", "u", "s", "e", "d">>,
      <<"7", "m">>>>
\* a service whose name is longer than the 70 characters of the service column
S_uplink ==
    <<"I", "n", "t", "e", "r", "f", "a", "c", "e", " ", "G", "i", "g", "a", "b", "i", "t", "E", "t", "h", "e", "r", "n", "e", "t", "0", "/", "0", "/", "1", " ", "u", "p", "l", "i", "n", "k", " ", "t", "o", " ", "t", "h", "e", " ", "c", "o", "r", "e", " ", "s", "w", "i", "t", "c", "h", " ", "i", "n", " ", "r", "a", "c", "k", " ", "1", "2", " ", "o", "f", " ", "h", "a", "l", "l", " ", "B">>
ServiceRowUplink ==
    <<<<"C", "R", "I", "T">>,
      <<"g", "w", "3">>,
      S_uplink,
      <<"a", "c", "k">>,
      <<"C", "R", "I", "T", " ", "-", " ", "d", "o", "w", "n">>,
      <<"9", "m">>>>
ResponseSent ==
    <<"M", "E", "S", "S", "A", "G", "E", ":", " ", "S", "u", "c", "c", "e", "s", "s", "f", "u", "l", "l", "y", " ", "s", "e", "n", "t", " ", "1", " ", "c", "o", "m", "m", "a", "n", "d", "s", ".">>
ResponseNoRows ==
    <<"M", "E", "S", "S", "A", "G", "E", ":", " ", "N", "o", " ", "m", "a", "t", "c", "h", "i", "n", "g", " ", "d", "a", "t", "a", " ", "r", "o", "w", ".">>
S_web1 ==
    <<"w", "e", "b", "1">>
S_nohost ==
    <<"n", "o", "h", "o", "s", "t">>
S_ip_10_0_0_9 ==
    <<"1", "0", ".", "0", ".", "0", ".", "9">>
S_gw_example_net ==
    <<"g", "w", ".", "e", "x", "a", "m", "p", "l", "e", ".", "n", "e", "t">>
S_bad_example ==
    <<"b", "a", "d", ".", "e", "x", "a", "m", "p", "l", "e">>
S_on_it ==
    <<"o", "n", " ", "i", "t">>
S_a_b ==
    <<" ", "a", ";", "b", " ">>
S_Yes ==
    <<"Y", "e", "s">>
DiscoveryOk ==
    <<"S", "e", "r", "v", "i", "c", "e", " ", "d", "i", "s", "c", "o", "v", "e", "r", "y", " ", "s", "u", "c", "c", "e", "s", "s", "f", "u", "l", ".", " ", "A", "d", "d", "e", "d", " ", "2", ",", " ", "r", "e", "m", "o", "v", "e", "d", " ", "0">>
DiscoveryFailed ==
    <<"C", "h", "e", "c", "k", "_", "M", "K", " ", "e", "x", "c", "e", "p", "t", "i", "o", "n", ":", " ", "h", "o", "s", "t", " ", "n", "o", "t", " ", "f", "o", "u", "n", "d">>

\* the rows of the views read by a session, up to MaxProblems of each
\* kind, and the header rows they follow
SessionHostRows == SeqsUpTo({HostRowWeb1, HostRowApp4}, MaxProblems)
SessionServiceRows ==
    SeqsUpTo({ServiceRowCpu, ServiceRowMem, ServiceRowUplink}, MaxProblems)
SessionHeaders ==
    {<<HostProblemsHeader, ServiceProblemsHeader>>,
     <<HostProblemsHeaderAck, ServiceProblemsHeaderAck>>}
SessionCommentViews ==
    {<<CommentsHeader>> \o rows :
        rows \in SeqsUpTo({CommentAnnWeb1, CommentBobCpu}, 1)}

\* the pages add_host finds the sites on
SitePages ==
    {<<>>, <<Text("login")>>}
        \cup {TwoTablePage(rows) : rows \in
                {<<>>,
                 <<TitleRow>>,
                 <<TitleRow, SiteRow(<<"prod">>, <<"Production">>, <<"tcp:1">>, ""),
                   SiteRow(<<"lab">>, <<>>, <<"tcp:3">>, "")>>,
                 <<TitleRow, SiteRow(<<"lab">>, <<>>, <<"tcp:3">>, ""),
                   SiteRow(<<"prod">>, <<"Production">>, <<"tcp:1">>, ""),
                   SiteRow(<<"dev">>, <<"Develop">>, <<"tcp:5">>, "\n")>>}}

\* what can be read at each prompt
SelectInputs ==
    {TypedInterrupt}
        \cup {TypedLine(str(n)) : n \in 0..(2 * MaxProblems + 1)}
        \cup {TypedLine(t) : t \in {<<>>, <<"x">>, <<"-", "1">>, <<" ", "2">>}}
CommentInputs ==
    {TypedInterrupt} \cup {TypedLine(t) : t \in {<<>>, <<" ">>, S_on_it, S_a_b}}
ConfirmInputs ==
    {TypedInterrupt}
        \cup {TypedLine(t) : t \in {<<>>, <<"y">>, S_Yes, <<"n">>, <<"q">>}}

\* the answers to a view action
Answers == {ResponseSent, ResponseNoRows}

\* the hosts and services named on the command line
NamedHosts == {S_web1, S_nohost}
NamedServices == {None, <<"c", "p", "u">>}

\* the names DNS resolves, and the folders of the server (the root is '')
Resolvable == {S_web1, S_gw_example_net}
Folders == {"", "servers", "servers/web"}

\* the hosts of the server with the ipaddress attribute of each: none, an
\* address, a name DNS resolves, a name it does not
S_web2 ==
    <<"w", "e", "b", "2">>
S_db2 ==
    <<"d", "b", "2">>
S_gw3 ==
    <<"g", "w", "3">>
S_app4 ==
    <<"a", "p", "p", "4">>
S_ip_10_0_0_1 ==
    <<"1", "0", ".", "0", ".", "0", ".", "1">>
S_ip_10_0_0_2 ==
    <<"1", "0", ".", "0", ".", "0", ".", "2">>
S_ip_10_0_0_3 ==
    <<"1", "0", ".", "0", ".", "0", ".", "3">>
AllHosts ==
    (S_web1 :> <<>>) @@ (S_web2 :> <<>>) @@ (S_db2 :> S_ip_10_0_0_2)
        @@ (S_gw3 :> S_gw_example_net) @@ (S_app4 :> S_bad_example)

\* what get_all_hosts answers: up to MaxHosts of these hosts
HostResults ==
    {[h \in names |-> AllHosts[h]] :
        names \in {n \in SUBSET DOMAIN AllHosts : Cardinality(n) <= MaxHosts}}

\* the strings given to a bulk operation
BulkNames ==
    {S_web1, <<"w", "e", "b">>, <<"2">>, <<"*">>, <<"?", "?", "?">>,
     <<"z", "z">>}

\* what the server answers to add_host: done, or refused with a message
HostExists ==
    <<"C", "h", "e", "c", "k", "_", "M", "K", " ", "e", "x", "c", "e", "p", "t", "i", "o", "n", ":", " ", "H", "o", "s", "t", " ", "w", "e", "b", "1", " ", "a", "l", "r", "e", "a", "d", "y", " ", "e", "x", "i", "s", "t", "s", " ", "i", "n", " ", "t", "h", "e", " ", "f", "o", "l", "d", "e", "r", " ", "M", "a", "i", "n", " ", "d", "i", "r", "e", "c", "t", "o", "r", "y", ".">>
InvalidSecret ==
    <<"I", "n", "v", "a", "l", "i", "d", " ", "a", "u", "t", "o", "m", "a", "t", "i", "o", "n", " ", "s", "e", "c", "r", "e", "t", " ", "f", "o", "r", " ", "u", "s", "e", "r", " ", "a", "u", "t", "o", "m", "a", "t", "i", "o", "n">>
AddHostAnswers ==
    {[result_code |-> 0, result |-> None],
     [result_code |-> 1, result |-> HostExists],
     [result_code |-> 1, result |-> InvalidSecret]}

AddHostArgs ==
    [hostname : {S_web1, S_nohost},
     folder : {"", "servers", "new"},
     folder_create : BOOLEAN,
     site : {"prod", "nosite"},
     ip : {None, S_ip_10_0_0_9, S_gw_example_net, S_bad_example},
     ignore_dns : BOOLEAN]

(***************************************************************************)
(* The bulk operations: the hosts of the server, sorted, and the ones a    *)
(* given string selects                                                    *)
(***************************************************************************)
\* the characters of host names and addresses, in the order of their codes
CodePoints ==
    <<"-", ".">> \o Digits \o UpperCase \o <<"_">> \o LowerCase

Ord(c) == CHOOSE k \in 1..Len(CodePoints) : CodePoints[k] = c

\* a < b for two strings
RECURSIVE LessText(_, _)
LessText(a, b) ==
    IF a = <<>> THEN b # <<>>
    ELSE IF b = <<>> THEN FALSE
    ELSE IF Head(a) = Head(b) THEN LessText(Tail(a), Tail(b))
    ELSE Ord(Head(a)) < Ord(Head(b))

\* hosts.sort()
RECURSIVE SortTexts(_)
SortTexts(texts) ==
    IF texts = {} THEN <<>>
    ELSE LET least == CHOOSE x \in texts :
                          \A y \in texts \ {x} : LessText(x, y)
         IN <<least>> \o SortTexts(texts \ {least})

\* get_hosts: the keys of the result of get_all_hosts, sorted
get_hosts(result) == SortTexts(DOMAIN result)

\* fnmatch.fnmatchcase(name, pat), for patterns of plain characters, '*'
\* and '?'
RECURSIVE fnmatchcase(_, _)
fnmatchcase(name, pat) ==
    IF pat = <<>> THEN name = <<>>
    ELSE IF Head(pat) = "*"
    THEN \/ fnmatchcase(name, Tail(pat))
         \/ name # <<>> /\ fnmatchcase(Tail(name), pat)
    ELSE /\ name # <<>>
         /\ Head(pat) = "?" \/ Head(pat) = Head(name)
         /\ fnmatchcase(Tail(name), Tail(pat))

match_string(hostname, lazy) ==
    IF lazy THEN hostname ELSE <<"*">> \o hostname \o <<"*">>

\* the hosts a bulk operation acts on, in the order of its loop
matching_hosts(result, hostname, lazy) ==
    SelectSeq(get_hosts(result),
              LAMBDA i : fnmatchcase(i, match_string(hostname, lazy)))

\* socket.gethostbyname(name) for a name DNS resolves; for any other name
\* it raises socket.gaierror
gethostbyname(name) ==
    IF name = S_web1 THEN S_ip_10_0_0_1 ELSE S_ip_10_0_0_3

\* get_ip: the line printed for one host, given its ipaddress attribute
get_ip_line(resolvable, hostname, ip) ==
    IF IsIpLiteral(ip) THEN Message("{}: {}", <<str_green(hostname), ip>>)
    ELSE LET name == IF ~Truthy(ip) THEN hostname ELSE ip
         IN IF name \in resolvable
            THEN Message("{}: {}", <<str_green(hostname), gethostbyname(name)>>)
            ELSE Message("error: unable to resolve hostname: {}",
                         <<str_red(name)>>)

\* get_ip_bulk as it would be if the first name that does not resolve ended
\* the loop
get_ip_bulk_stops_at_failure(resolvable, result, hostname, lazy) ==
    LET hosts == matching_hosts(result, hostname, lazy)
        failed == {k \in 1..Len(hosts) :
                      get_ip_line(resolvable, hosts[k], result[hosts[k]]).text
                          # "{}: {}"}
        last == IF failed = {} THEN Len(hosts)
                ELSE CHOOSE k \in failed : \A j \in failed : k <= j
    IN [k \in 1..last |-> get_ip_line(resolvable, hosts[k], result[hosts[k]])]

\* get_ip_bulk: the lines printed, one for each matching host
get_ip_bulk(resolvable, result, hostname, lazy) ==
    LET hosts == matching_hosts(result, hostname, lazy)
    IN [k \in 1..Len(hosts) |->
           get_ip_line(resolvable, hosts[k], result[hosts[k]])]

\* the requests of get_ip_bulk: the hosts, then one get_host for each
\* matching host
get_ip_bulk_requests(result, hostname, lazy) ==
    LET hosts == matching_hosts(result, hostname, lazy)
    IN <<Request("get_all_hosts", None, None, result)>>
           \o [k \in 1..Len(hosts) |->
                  Request("get_host", hosts[k], None, result[hosts[k]])]

\* downtime_bulk_add: nothing is requested when both a duration and a period
\* are given (ValueError); else the hosts, then for each matching host the
\* downtime for the minutes or for the period
downtime_bulk_add_requests(result, hostname, service, lazy, minutes, period, answer) ==
    LET hosts == matching_hosts(result, hostname, lazy)
    IN IF minutes # 0 /\ period THEN <<>>
       ELSE <<Request("get_all_hosts", None, None, result)>>
               \o Flatten([k \in 1..Len(hosts) |->
                     (IF minutes # 0
                      THEN <<Request("down_from_now", hosts[k], service, answer)>>
                      ELSE <<>>)
                     \o (IF period
                         THEN <<Request("down_custom", hosts[k], service, answer)>>
                         ELSE <<>>)])

downtime_bulk_add_lines(result, hostname, service, lazy, minutes, period, answer) ==
    LET hosts == matching_hosts(result, hostname, lazy)
    IN IF minutes # 0 /\ period THEN <<>>
       ELSE Flatten([k \in 1..Len(hosts) |->
                (IF minutes # 0
                 THEN downtime_add_minutes_lines(hosts[k], service, minutes, answer)
                 ELSE <<>>)
                \o (IF period
                    THEN downtime_add_period_lines(hosts[k], service, answer)
                    ELSE <<>>)])

\* downtime_bulk_remove
downtime_bulk_remove_requests(result, hostname, service, lazy, answer) ==
    LET hosts == matching_hosts(result, hostname, lazy)
    IN <<Request("get_all_hosts", None, None, result)>>
           \o [k \in 1..Len(hosts) |->
                  Request("remove_downtimes", hosts[k], service, answer)]

downtime_bulk_remove_lines(result, hostname, service, lazy, answer) ==
    LET hosts == matching_hosts(result, hostname, lazy)
    IN Flatten([k \in 1..Len(hosts) |->
                   downtime_remove_lines(hosts[k], service, answer)])

\* the end of refresh_bulk, unknown_refresh and unmonitored_refresh: each
\* host of the list is refreshed, then the changes are activated if asked
\* the requests as they would be if the changes were activated first
refresh_hosts_requests_activate_first(hosts, activate, discovery, activated) ==
    (IF activate
     THEN <<[kind |-> "activate_changes", host |-> None,
             service |-> None, answer |-> <<>>,
             result_code |-> activated]>>
     ELSE <<>>)
        \o [k \in 1..Len(hosts) |->
               Request("discover_services", hosts[k], None, discovery)]

refresh_hosts_requests(hosts, activate, discovery, activated) ==
    [k \in 1..Len(hosts) |->
        Request("discover_services", hosts[k], None, discovery)]
        \o (IF activate
            THEN <<[kind |-> "activate_changes", host |-> None,
                    service |-> None, answer |-> <<>>,
                    result_code |-> activated]>>
            ELSE <<>>)

refresh_hosts_lines(hosts, activate, discovery, activated) ==
    Flatten([k \in 1..Len(hosts) |-> refresh_lines(hosts[k], discovery)])
        \o (IF activate THEN activate_lines(activated) ELSE <<>>)

\* what is printed before the question: the hosts between two blank lines
confirm_lines(hosts) ==
    <<Message("", <<>>)>>
        \o [k \in 1..Len(hosts) |-> Message("{}", <<str_green(hosts[k])>>)]
        \o <<Message("", <<>>)>>

\* two more problems on app4: a service in the Unknown state and a
\* Check_MK inventory that found services which are not monitored
ServiceRowSwapApp4 ==
    <<<<"U", "N", "K", "N">>,
      S_app4,
      <<"s", "w", "a", "p">>,
      <<>>,
      <<"U", "N", "K", "N", "O", "W", "N", " ", "-", " ", "n", "o", " ", "d", "a", "t", "a">>,
      <<"3", "m">>>>
ServiceRowInventoryApp4 ==
    <<<<"W", "A", "R", "N">>,
      S_app4,
      S_Check_MK_inventory,
      <<>>,
      <<"W", "A", "R", "N", " ", "-", " ", "1", " ", "u", "n", "m", "o", "n", "i", "t", "o", "r", "e", "d", " ", "s", "e", "r", "v", "i", "c", "e", "s">>,
      <<"4", "h">>>>
\* the service problems a refresh of the Unknown or unmonitored hosts reads
RefreshServiceRows ==
    SeqsUpTo({ServiceRowDisk, ServiceRowInventory, ServiceRowCpu,
              ServiceRowSwapApp4, ServiceRowInventoryApp4}, MaxProblems)

(***************************************************************************)
(* downtime_list                                                           *)
(***************************************************************************)
\* the five del statements applied to the host headers and to each host row
host_downtime_columns(row) ==
    DelAt(DelAt(DelAt(DelAt(DelAt(row, 1), 1), 5), 5), 5)

\* the deletions of a service row as they would be without the last one
service_downtime_columns_keeps_recurring(row) ==
    DelAt(DelAt(DelAt(row, 2), 6), 6)

\* the four del statements applied to the service headers and to each
\* service row
service_downtime_columns(row) ==
    DelAt(DelAt(DelAt(DelAt(row, 2), 6), 6), 6)

\* the two tables and their headers, from the answer r of the downtimes view
downtime_list(r) ==
    LET downtimes_headers == [k \in 1..Len(r[1]) |-> str_bold(r[1][k])]
        rows == Tail(r)
        hosts == SelectSeq(rows, LAMBDA i : At(i, 1) = <<>>)
        services == SelectSeq(rows, LAMBDA i : ~(At(i, 1) = <<>>))
    IN [host_downtimes_headers |-> host_downtime_columns(downtimes_headers),
        host_downtimes |->
            [k \in 1..Len(hosts) |-> host_downtime_columns(hosts[k])],
        service_downtimes_headers |->
            service_downtime_columns(downtimes_headers),
        service_downtimes |->
            [k \in 1..Len(services) |-> service_downtime_columns(services[k])]]

S_host_downtimes ==
    <<"h", "o", "s", "t", " ", "d", "o", "w", "n", "t", "i", "m", "e", "s">>
S_service_downtimes ==
    <<"s", "e", "r", "v", "i", "c", "e", " ", "d", "o", "w", "n", "t", "i", "m", "e", "s">>

\* what downtime_list prints for the tables the caller asked for
downtime_list_lines(r, hosts, services) ==
    IF Len(r) - 1 = 0
    THEN <<Message("there are no hosts or services in downtime", <<>>)>>
    ELSE (IF (hosts /\ ~services) \/ (~hosts /\ ~services) \/ (hosts /\ services)
          THEN table_lines(S_host_downtimes,
                           downtime_list(r).host_downtimes_headers,
                           downtime_list(r).host_downtimes)
          ELSE <<>>)
         \o (IF (services /\ ~hosts) \/ (~hosts /\ ~services)
                    \/ (hosts /\ services)
             THEN table_lines(S_service_downtimes,
                              downtime_list(r).service_downtimes_headers,
                              downtime_list(r).service_downtimes)
             ELSE <<>>)
         \o <<Message("", <<>>)>>

\* the downtimes view: its header row and its rows
DowntimesHeader ==
    <<<<"h", "o", "s", "t">>,
      <<"s", "e", "r", "v", "i", "c", "e", "_", "d", "e", "s", "c", "r", "i", "p", "t", "i", "o", "n">>,
      <<"d", "o", "w", "n", "t", "i", "m", "e", "_", "o", "r", "i", "g", "i", "n">>,
      <<"d", "o", "w", "n", "t", "i", "m", "e", "_", "a", "u", "t", "h", "o", "r">>,
      <<"d", "o", "w", "n", "t", "i", "m", "e", "_", "e", "n", "t", "r", "y", "_", "t", "i", "m", "e">>,
      <<"d", "o", "w", "n", "t", "i", "m", "e", "_", "s", "t", "a", "r", "t">>,
      <<"d", "o", "w", "n", "t", "i", "m", "e", "_", "e", "n", "d">>,
      <<"d", "o", "w", "n", "t", "i", "m", "e", "_", "f", "i", "x", "e", "d">>,
      <<"d", "o", "w", "n", "t", "i", "m", "e", "_", "d", "u", "r", "a", "t", "i", "o", "n">>,
      <<"d", "o", "w", "n", "t", "i", "m", "e", "_", "r", "e", "c", "u", "r", "r", "i", "n", "g">>,
      <<"d", "o", "w", "n", "t", "i", "m", "e", "_", "c", "o", "m", "m", "e", "n", "t">>>>
DowntimeRowWeb1 ==
    <<<<"w", "e", "b", "1">>,
      <<>>,
      <<"c", "o", "m", "m", "a", "n", "d">>,
      <<"a", "n", "n">>,
      <<"0", "9", ":", "0", "0">>,
      <<"1", "0", ":", "0", "0">>,
      <<"1", "1", ":", "0", "0">>,
      <<"y", "e", "s">>,
      <<"0">>,
      <<"n", "o">>,
      <<"p", "a", "t", "c", "h", "i", "n", "g">>>>
DowntimeRowCpu ==
    <<<<"w", "e", "b", "1">>,
      <<"c", "p", "u">>,
      <<"c", "o", "m", "m", "a", "n", "d">>,
      <<"b", "o", "b">>,
      <<"0", "9", ":", "0", "5">>,
      <<"1", "0", ":", "0", "0">>,
      <<"1", "2", ":", "0", "0">>,
      <<"n", "o">>,
      <<"3", "6", "0", "0">>,
      <<"n", "o">>,
      <<"t", "u", "n", "i", "n", "g">>>>
\* a row whose service cell is one space
DowntimeRowBlank ==
    <<<<"d", "b", "2">>,
      <<" ">>,
      <<"c", "o", "m", "m", "a", "n", "d">>,
      <<"a", "n", "n">>,
      <<"0", "9", ":", "1", "0">>,
      <<>>,
      <<>>,
      <<"y", "e", "s">>,
      <<"0">>,
      <<>>,
      <<>>>>

DowntimeViews ==
    {<<DowntimesHeader>> \o rows :
        rows \in SeqsUpTo({DowntimeRowWeb1, DowntimeRowCpu, DowntimeRowBlank},
                          MaxDowntimes)}

(***************************************************************************)
(* Spec: one run of a command.  A session stops at each prompt: a step is  *)
(* everything the program does from one thing read to the next.            *)
(***************************************************************************)
Init ==
    /\ print_colour = TRUE
    /\ ListingIdle
    /\ page = <<>>
    /\ ScraperNew
    /\ RunIdle

\* a prompt function that rejects its input calls itself: the prompt is
\* shown again, one call deeper, until the interpreter refuses the call; the
\* RecursionError is caught nowhere and ends the run with a traceback
Reprompt(kept) ==
    IF depth < RecursionLimit
    THEN /\ depth' = depth + 1
         /\ UNCHANGED <<pc, stdout, exit_code, raised, kept>>
    ELSE /\ raised' = "RecursionError"
         /\ pc' = "done"
         /\ exit_code' = 1
         /\ UNCHANGED <<depth, stdout, kept>>

Read(prompt, input) ==
    [prompt |-> prompt, key |-> input.key, text |-> input.text]

\* acknowledge, up to its first prompt
Acknowledge ==
    /\ pc = "start"
    /\ op' = "acknowledge"
    /\ \E hrows \in SessionHostRows, srows \in SessionServiceRows :
        LET hv == <<HostProblemsHeader>> \o hrows
            sv == <<ServiceProblemsHeader>> \o srows
            hosts == acknowledge_host_table(hv)
            services == acknowledge_service_table(sv, Len(hosts))
        IN /\ host_view' = hv
           /\ service_view' = sv
           /\ host_table' = hosts
           /\ service_table' = services
           /\ requests' = requests \o <<Request("hostproblems", None, None, <<>>),
                                        Request("svcproblems", None, None, <<>>)>>
           /\ IF Len(hosts) + Len(services) = 0
              THEN /\ stdout' = stdout \o
                        <<Message("there are no un-acknowledged host or service problems.", <<>>)>>
                   /\ pc' = "done"
                   /\ exit_code' = 0
              ELSE /\ pc' = "select"
                   /\ UNCHANGED <<stdout, exit_code>>
    /\ UNCHANGED <<comments_view, wanted, table, refresh_hosts, selected,
                   target, ack_comment, typed, depth, args, print_colour, scraperVars>>

\* unacknowledge, up to its first prompt
Unacknowledge ==
    /\ pc = "start"
    /\ op' = "unacknowledge"
    /\ \E headers \in SessionHeaders, hrows \in SessionHostRows,
          srows \in SessionServiceRows, cv \in SessionCommentViews :
        LET hv == <<headers[1]>> \o hrows
            sv == <<headers[2]>> \o srows
            hosts == unacknowledge_host_table(hv, get_comments(cv))
            services == unacknowledge_service_table(sv, get_comments(cv), Len(hosts))
        IN /\ host_view' = hv
           /\ service_view' = sv
           /\ comments_view' = cv
           /\ host_table' = hosts
           /\ service_table' = services
           /\ requests' = requests \o <<Request("hostproblems", None, None, <<>>),
                                        Request("comments", None, None, <<>>),
                                        Request("svcproblems", None, None, <<>>),
                                        Request("comments", None, None, <<>>)>>
           /\ IF Len(hosts) + Len(services) = 0
              THEN /\ stdout' = stdout \o
                        <<Message("there are no acknowledged host or service problems.", <<>>)>>
                   /\ pc' = "done"
                   /\ exit_code' = 0
              ELSE /\ pc' = "select"
                   /\ UNCHANGED <<stdout, exit_code>>
    /\ UNCHANGED <<wanted, table, refresh_hosts, selected, target,
                   ack_comment, typed, depth, args, print_colour, scraperVars>>

\* get_problem_id reads a line; on a selection, acknowledge goes on to ask
\* for a comment and unacknowledge to ask for confirmation
GetProblemId ==
    /\ pc = "select"
    /\ \E input \in SelectInputs :
        LET r == get_problem_id(input, Len(host_table) + Len(service_table))
            chosen == IF op = "acknowledge"
                      THEN acknowledge_selection(host_table, service_table, r.value)
                      ELSE unacknowledge_selection(host_table, service_table, r.value)
        IN /\ typed' = Read("select", input)
           /\ IF r.again
              THEN Reprompt(<<selected, target>>)
              ELSE IF r.value = 0
              THEN /\ pc' = "done"
                   /\ exit_code' = 0
                   /\ stdout' = stdout \o <<Message("", <<>>)>>
                   /\ UNCHANGED <<selected, target, raised>>
                   /\ depth' = 0
              ELSE /\ selected' = r.value
                   /\ depth' = 0
                   /\ UNCHANGED raised
                   /\ target' = chosen
                   /\ pc' = IF op = "acknowledge" THEN "comment" ELSE "confirm"
                   /\ stdout' = stdout \o
                        (IF op = "acknowledge" THEN <<Message("", <<>>)>>
                         ELSE print_acknowledgement(At(chosen, 0), At(chosen, 1),
                                                    At(chosen, 2), At(chosen, 3), None))
                   /\ UNCHANGED exit_code
    /\ UNCHANGED <<host_table, service_table, ack_comment, args, requests,
                   print_colour, parserVars, listingVars>>

\* get_acknowledge_comment reads a line
GetAcknowledgeComment ==
    /\ pc = "comment"
    /\ \E input \in CommentInputs :
        LET r == get_acknowledge_comment(input)
        IN /\ typed' = Read("comment", input)
           /\ IF r.again
              THEN Reprompt(ack_comment)
              ELSE IF ~Truthy(r.value)
              THEN /\ pc' = "done"
                   /\ exit_code' = 0
                   /\ stdout' = stdout \o <<Message("", <<>>)>>
                   /\ UNCHANGED <<ack_comment, raised>>
                   /\ depth' = 0
              ELSE /\ ack_comment' = r.value
                   /\ depth' = 0
                   /\ UNCHANGED raised
                   /\ pc' = "confirm"
                   /\ stdout' = stdout \o
                        print_acknowledgement(At(target, 0), At(target, 1),
                                              At(target, 2), At(target, 3), r.value)
                   /\ UNCHANGED exit_code
    /\ UNCHANGED <<host_table, service_table, selected, target, args, requests,
                   print_colour, parserVars, listingVars>>

\* yes_no reads a line; on a yes the problem is acknowledged or un-acknowledged
YesNo ==
    /\ pc = "confirm"
    /\ \E input \in ConfirmInputs, answer \in Answers :
        LET a == yes_no(input)
            host == At(target, 1)
            service == At(target, 2)
        IN /\ typed' = Read("confirm", input)
           /\ IF a = "again"
              THEN Reprompt(requests)
              ELSE IF a # "True"
              THEN /\ pc' = "done"
                   /\ exit_code' = 0
                   /\ stdout' = stdout \o
                        (IF a = "None" THEN <<Message("", <<>>)>> ELSE <<>>)
                   /\ UNCHANGED <<requests, raised>>
                   /\ depth' = 0
              ELSE /\ pc' = "done"
                   /\ exit_code' = 0
                   /\ depth' = 0
                   /\ UNCHANGED raised
                   /\ IF op = "acknowledge"
                      THEN /\ requests' = requests \o
                                <<Request("acknowledge", host, service, answer)>>
                           /\ stdout' = stdout \o
                                acknowledge_problem_lines(host, service, answer)
                      ELSE /\ requests' = requests \o
                                <<Request("remove_ack", host, service, answer)>>
                           /\ stdout' = stdout \o
                                unacknowledge_problem_lines(host, service, answer)
    /\ UNCHANGED <<host_table, service_table, selected, target, ack_comment,
                   args, print_colour, parserVars, listingVars>>

\* the view actions, each called with the names given on the command line
AcknowledgeProblem ==
    /\ pc = "start"
    /\ op' = "acknowledge_problem"
    /\ \E host \in NamedHosts, service \in NamedServices, answer \in Answers :
        /\ target' = <<None, host, service, None>>
        /\ ack_comment' = S_on_it
        /\ requests' = requests \o <<Request("acknowledge", host, service, answer)>>
        /\ stdout' = stdout \o acknowledge_problem_lines(host, service, answer)
    /\ pc' = "done"
    /\ exit_code' = 0
    /\ UNCHANGED <<host_view, service_view, comments_view, wanted, table,
                   refresh_hosts, host_table, service_table, selected, typed, depth,
                   args, print_colour, scraperVars>>

UnacknowledgeProblem ==
    /\ pc = "start"
    /\ op' = "unacknowledge_problem"
    /\ \E host \in NamedHosts, service \in NamedServices, answer \in Answers :
        /\ target' = <<None, host, service, None>>
        /\ requests' = requests \o <<Request("remove_ack", host, service, answer)>>
        /\ stdout' = stdout \o unacknowledge_problem_lines(host, service, answer)
    /\ pc' = "done"
    /\ exit_code' = 0
    /\ UNCHANGED <<host_view, service_view, comments_view, wanted, table,
                   refresh_hosts, host_table, service_table, selected,
                   ack_comment, typed, depth, args, print_colour, scraperVars>>

DowntimeAddMinutes ==
    /\ pc = "start"
    /\ op' = "downtime_add_minutes"
    /\ \E hostname \in NamedHosts, service \in NamedServices,
          minutes \in {30, 90}, answer \in Answers :
        /\ target' = <<None, hostname, service, None>>
        /\ requests' = requests \o
             <<Request("down_from_now", hostname, service, answer)>>
        /\ stdout' = stdout \o
             downtime_add_minutes_lines(hostname, service, minutes, answer)
    /\ pc' = "done"
    /\ exit_code' = 0
    /\ UNCHANGED <<host_view, service_view, comments_view, wanted, table,
                   refresh_hosts, host_table, service_table, selected,
                   ack_comment, typed, depth, args, print_colour, scraperVars>>

DowntimeAddPeriod ==
    /\ pc = "start"
    /\ op' = "downtime_add_period"
    /\ \E hostname \in NamedHosts, service \in NamedServices, answer \in Answers :
        /\ target' = <<None, hostname, service, None>>
        /\ requests' = requests \o
             <<Request("down_custom", hostname, service, answer)>>
        /\ stdout' = stdout \o
             downtime_add_period_lines(hostname, service, answer)
    /\ pc' = "done"
    /\ exit_code' = 0
    /\ UNCHANGED <<host_view, service_view, comments_view, wanted, table,
                   refresh_hosts, host_table, service_table, selected,
                   ack_comment, typed, depth, args, print_colour, scraperVars>>

DowntimeRemove ==
    /\ pc = "start"
    /\ op' = "downtime_remove"
    /\ \E hostname \in NamedHosts, service \in NamedServices, answer \in Answers :
        /\ target' = <<None, hostname, service, None>>
        /\ requests' = requests \o
             <<Request("remove_downtimes", hostname, service, answer)>>
        /\ stdout' = stdout \o downtime_remove_lines(hostname, service, answer)
    /\ pc' = "done"
    /\ exit_code' = 0
    /\ UNCHANGED <<host_view, service_view, comments_view, wanted, table,
                   refresh_hosts, host_table, service_table, selected,
                   ack_comment, typed, depth, args, print_colour, scraperVars>>

\* add_host_preflight_check: the site list is scraped from a page, and the
\* process ends with status 1 where a check fails or an exception escapes
AddHostPreflightCheck ==
    /\ pc = "start"
    /\ op' = "add_host"
    /\ \E p \in SitePages, a \in AddHostArgs :
        LET scraped == ScrapeSites(p)
            stopped == add_host_preflight_check(scraped, Resolvable, Folders, a)
        IN /\ page' = p
           /\ raised' = IF scraped.exc = "none" /\ stopped = "crash"
                        THEN "IndexError" ELSE scraped.exc
           /\ returned' = (scraped.exc = "none")
           /\ sites' = scraped.rows
           /\ args' = a
           /\ requests' = requests \o add_host_preflight_requests(stopped, a)
           /\ stdout' = stdout \o add_host_preflight_lines(stopped, Folders, a)
           /\ IF stopped = "pass"
              THEN pc' = "add_host" /\ UNCHANGED exit_code
              ELSE pc' = "done" /\ exit_code' = 1
    /\ UNCHANGED <<pos, output, row_index, column_index, header_found,
                   host_view, service_view, comments_view, wanted, table,
                   refresh_hosts, sessionVars, print_colour>>

\* add_host, called once the preflight check has returned; the options
\* --mode and --activate, which only add_host reads, are drawn here
AddHost ==
    /\ pc = "add_host"
    /\ \E mode \in {"None", "testing", "disabled"}, activate \in BOOLEAN,
          answer \in AddHostAnswers, discovery \in {DiscoveryOk, DiscoveryFailed},
          activated \in {0, 1} :
        /\ args' = [hostname |-> args.hostname, folder |-> args.folder,
                    folder_create |-> args.folder_create, site |-> args.site,
                    ip |-> args.ip, ignore_dns |-> args.ignore_dns,
                    mode |-> mode, activate |-> activate]
        /\ requests' = requests \o
             add_host_requests(args, mode, activate, answer.result_code,
                               answer.result)
        /\ stdout' = stdout \o
             add_host_lines(args, mode, activate, answer.result_code,
                            answer.result, discovery, activated)
        /\ exit_code' = IF answer.result_code = 0 THEN 0 ELSE 1
    /\ pc' = "done"
    /\ UNCHANGED <<sessionVars, print_colour, scraperVars, listingVars>>

\* refresh, called with the name given on the command line
Refresh ==
    /\ pc = "start"
    /\ op' = "refresh"
    /\ \E hostname \in NamedHosts, result \in {DiscoveryOk, DiscoveryFailed} :
        /\ target' = <<None, hostname, None, None>>
        /\ requests' = requests \o
             <<Request("discover_services", hostname, None, result)>>
        /\ stdout' = stdout \o refresh_lines(hostname, result)
    /\ pc' = "done"
    /\ exit_code' = 0
    /\ UNCHANGED <<host_view, service_view, comments_view, wanted, table,
                   refresh_hosts, host_table, service_table, selected,
                   ack_comment, typed, depth, args, print_colour, scraperVars>>

\* activate
Activate ==
    /\ pc = "start"
    /\ op' = "activate"
    /\ \E result_code \in {0, 1} :
        /\ requests' = requests \o
             <<[kind |-> "activate_changes", host |-> None, service |-> None,
                answer |-> <<>>, result_code |-> result_code]>>
        /\ stdout' = stdout \o activate_lines(result_code)
    /\ pc' = "done"
    /\ exit_code' = 0
    /\ UNCHANGED <<host_view, service_view, comments_view, wanted, table,
                   refresh_hosts, sessionVars, args, print_colour, scraperVars>>

\* get_ip_bulk, called with the string given on the command line
GetIpBulk ==
    /\ pc = "start"
    /\ op' = "get_ip_bulk"
    /\ \E result \in HostResults, hostname \in BulkNames, lazy \in BOOLEAN :
        /\ args' = [hostname |-> hostname, lazy |-> lazy]
        /\ table' = get_hosts(result)
        /\ requests' = requests \o get_ip_bulk_requests(result, hostname, lazy)
        /\ stdout' = stdout \o get_ip_bulk(Resolvable, result, hostname, lazy)
    /\ pc' = "done"
    /\ exit_code' = 0
    /\ UNCHANGED <<host_view, service_view, comments_view, wanted,
                   refresh_hosts, sessionVars, print_colour, scraperVars>>

\* downtime_list, called with the two flags of the command line
DowntimeList ==
    /\ pc = "start"
    /\ op' = "downtime_list"
    /\ \E r \in DowntimeViews, hosts \in BOOLEAN, services \in BOOLEAN :
        /\ args' = [hosts |-> hosts, services |-> services]
        /\ requests' = requests \o <<Request("downtimes", None, None, r)>>
        /\ table' = downtime_list(r)
        /\ stdout' = stdout \o downtime_list_lines(r, hosts, services)
    /\ pc' = "done"
    /\ exit_code' = 0
    /\ UNCHANGED <<host_view, service_view, comments_view, wanted,
                   refresh_hosts, sessionVars, print_colour, scraperVars>>

\* downtime_bulk_add, called with a duration, a period or, by mistake, both
DowntimeBulkAdd ==
    /\ pc = "start"
    /\ op' = "downtime_bulk_add"
    /\ \E result \in HostResults, hostname \in BulkNames, lazy \in BOOLEAN,
          minutes \in {0, 30}, period \in BOOLEAN, answer \in Answers :
        /\ minutes # 0 \/ period
        /\ args' = [hostname |-> hostname, lazy |-> lazy, minutes |-> minutes,
                    period |-> period]
        /\ requests' = requests \o
             downtime_bulk_add_requests(result, hostname, None, lazy, minutes,
                                        period, answer)
        /\ stdout' = stdout \o
             downtime_bulk_add_lines(result, hostname, None, lazy, minutes,
                                     period, answer)
        /\ raised' = IF minutes # 0 /\ period THEN "ValueError" ELSE "none"
        /\ exit_code' = IF minutes # 0 /\ period THEN 1 ELSE 0
    /\ pc' = "done"
    /\ UNCHANGED <<host_view, service_view, comments_view, wanted, table,
                   refresh_hosts, sessionVars, print_colour, parserVars>>

\* downtime_bulk_remove
DowntimeBulkRemove ==
    /\ pc = "start"
    /\ op' = "downtime_bulk_remove"
    /\ \E result \in HostResults, hostname \in BulkNames, lazy \in BOOLEAN,
          answer \in Answers :
        /\ args' = [hostname |-> hostname, lazy |-> lazy]
        /\ requests' = requests \o
             downtime_bulk_remove_requests(result, hostname, None, lazy, answer)
        /\ stdout' = stdout \o
             downtime_bulk_remove_lines(result, hostname, None, lazy, answer)
    /\ pc' = "done"
    /\ exit_code' = 0
    /\ UNCHANGED <<host_view, service_view, comments_view, wanted, table,
                   refresh_hosts, sessionVars, print_colour, scraperVars>>

\* what refresh_bulk, unknown_refresh and unmonitored_refresh do once the
\* list of hosts is made: end where it is empty, ask where a confirmation
\* is required, else refresh
RefreshOrAsk(hosts, confirm, activate, nothing, sent) ==
    IF Len(hosts) = 0
    THEN /\ stdout' = stdout \o <<nothing>>
         /\ requests' = requests \o sent
         /\ pc' = "done"
         /\ exit_code' = 0
    ELSE IF confirm
    THEN /\ stdout' = stdout \o confirm_lines(hosts)
         /\ requests' = requests \o sent
         /\ pc' = "proceed"
         /\ UNCHANGED exit_code
    ELSE \E discovery \in {DiscoveryOk, DiscoveryFailed}, activated \in {0, 1} :
         /\ stdout' = stdout \o
              refresh_hosts_lines(hosts, activate, discovery, activated)
         /\ requests' = requests \o sent \o
              refresh_hosts_requests(hosts, activate, discovery, activated)
         /\ pc' = "done"
         /\ exit_code' = 0

\* refresh_bulk, up to its question or, without one, to its end
RefreshBulk ==
    /\ pc = "start"
    /\ op' = "refresh_bulk"
    /\ \E result \in HostResults, hostname \in BulkNames, lazy \in BOOLEAN,
          confirm \in BOOLEAN, activate \in BOOLEAN :
        /\ args' = [hostname |-> hostname, lazy |-> lazy, confirm |-> confirm,
                    activate |-> activate]
        /\ refresh_hosts' = matching_hosts(result, hostname, lazy)
        /\ RefreshOrAsk(matching_hosts(result, hostname, lazy), confirm, activate,
                        Message("no hosts found matching {}", <<hostname>>),
                        <<Request("get_all_hosts", None, None, result)>>)
    /\ UNCHANGED <<host_view, service_view, comments_view, wanted, table,
                   sessionVars, print_colour, scraperVars>>

\* unknown_refresh, up to its question or, without one, to its end
UnknownRefresh ==
    /\ pc = "start"
    /\ op' = "unknown_refresh"
    /\ \E rows \in RefreshServiceRows, confirm \in BOOLEAN, activate \in BOOLEAN :
        LET problems == <<ServiceProblemsHeader>> \o rows
        IN /\ args' = [hostname |-> None, lazy |-> FALSE, confirm |-> confirm,
                       activate |-> activate]
           /\ service_view' = problems
           /\ refresh_hosts' = SortTexts(unknown_refresh_hosts(problems))
           /\ RefreshOrAsk(SortTexts(unknown_refresh_hosts(problems)),
                           confirm, activate,
                           Message("there are currently no services in the 'Unknown' state", <<>>),
                           <<Request("svcproblems", None, None, <<>>)>>)
    /\ UNCHANGED <<host_view, comments_view, wanted, table, sessionVars,
                   print_colour, scraperVars>>

\* unmonitored_refresh, up to its question or, without one, to its end
UnmonitoredRefresh ==
    /\ pc = "start"
    /\ op' = "unmonitored_refresh"
    /\ \E rows \in RefreshServiceRows, confirm \in BOOLEAN, activate \in BOOLEAN :
        LET problems == <<ServiceProblemsHeader>> \o rows
        IN /\ args' = [hostname |-> None, lazy |-> FALSE, confirm |-> confirm,
                       activate |-> activate]
           /\ service_view' = problems
           /\ refresh_hosts' = SortTexts(unmonitored_refresh_hosts(problems))
           /\ RefreshOrAsk(SortTexts(unmonitored_refresh_hosts(problems)),
                           confirm, activate,
                           Message("there are currently no hosts with un-monitored services", <<>>),
                           <<Request("svcproblems", None, None, <<>>)>>)
    /\ UNCHANGED <<host_view, comments_view, wanted, table, sessionVars,
                   print_colour, scraperVars>>

\* yes_no reads a line; on a yes the hosts are refreshed
ProceedWithRefresh ==
    /\ pc = "proceed"
    /\ \E input \in ConfirmInputs, discovery \in {DiscoveryOk, DiscoveryFailed},
          activated \in {0, 1} :
        LET a == yes_no(input)
        IN /\ typed' = Read("proceed", input)
           /\ IF a = "again"
              THEN Reprompt(requests)
              ELSE /\ pc' = "done"
                   /\ exit_code' = 0
                   /\ depth' = 0
                   /\ UNCHANGED raised
                   /\ IF a = "True"
                      THEN /\ requests' = requests \o
                                refresh_hosts_requests(refresh_hosts, args.activate,
                                                       discovery, activated)
                           /\ stdout' = stdout \o
                                refresh_hosts_lines(refresh_hosts, args.activate,
                                                    discovery, activated)
                      ELSE /\ UNCHANGED requests
                           /\ stdout' = stdout \o
                                (IF a = "None" THEN <<Message("", <<>>)>>
                                 ELSE <<>>)
    /\ UNCHANGED <<host_table, service_table, selected, target, ack_comment,
                   args, print_colour, parserVars, listingVars>>

Next ==
    \/ Acknowledge
    \/ Unacknowledge
    \/ GetProblemId
    \/ GetAcknowledgeComment
    \/ YesNo
    \/ AcknowledgeProblem
    \/ UnacknowledgeProblem
    \/ DowntimeAddMinutes
    \/ DowntimeAddPeriod
    \/ DowntimeRemove
    \/ AddHostPreflightCheck
    \/ AddHost
    \/ Refresh
    \/ Activate
    \/ GetIpBulk
    \/ DowntimeList
    \/ DowntimeBulkAdd
    \/ DowntimeBulkRemove
    \/ RefreshBulk
    \/ UnknownRefresh
    \/ UnmonitoredRefresh
    \/ ProceedWithRefresh

Spec == Init /\ [][Next]_vars

(***************************************************************************)
(* SpecText: the normalisation of a detail text, applied to texts made of  *)
(* up to MaxPieces pieces                                                  *)
(***************************************************************************)
DetailPieces ==
    {S_CRIT_prefix, S_WARN_prefix, S_UNKNOWN_prefix,
     <<"f", "o", "o">>, <<"U", "N", "K", "N", " ", "-", " ">>,
     <<"c", "r", "i", "t", " ", "-", " ">>, <<"\n">>}

DetailTexts == {Flatten(pieces) : pieces \in SeqsUpTo(DetailPieces, MaxPieces)}

InitText ==
    /\ print_colour = TRUE
    /\ op = "none"
    /\ host_view = <<>>
    /\ service_view = <<>>
    /\ comments_view = <<>>
    /\ wanted \in DetailTexts
    /\ table = <<>>
    /\ refresh_hosts = {}
    /\ page = <<>>
    /\ ScraperNew
    /\ RunIdle

\* detail = re.sub('^(CRIT|WARN|UNKNOWN) - ', '', detail)
StripSeverityPrefix ==
    /\ op = "none"
    /\ op' = "strip_severity_prefix"
    /\ table' = strip_severity_prefix(wanted)
    /\ UNCHANGED <<host_view, service_view, comments_view, wanted,
                   refresh_hosts, print_colour, scraperVars, runVars>>

NextText == StripSeverityPrefix

SpecText == InitText /\ [][NextText]_vars

(***************************************************************************)
(* Claims about the scraper (checked under SpecScraper)                    *)
(***************************************************************************)
\* the text of a cell: its text nodes, joined
RECURSIVE CellText(_)
CellText(nodes) ==
    IF nodes = <<>> THEN "" ELSE Head(nodes) \o CellText(Tail(nodes))

\* columns 2, 3 and 4 of a table row
Columns234(row) ==
    [c \in 1..3 |-> IF c + 1 <= Len(row.cells)
                    THEN CellText(row.cells[c + 1].nodes) ELSE ""]

\* one row per <tr> except the first and the last, in document order
InteriorRows(rows) ==
    IF Len(rows) <= 2 THEN <<>>
    ELSE [i \in 1..(Len(rows) - 2) |-> Columns234(rows[i + 1])]

\* C1: for a page made of exactly one header table followed by one data
\* table, feed followed by get_sites returns, in document order, one row per
\* <tr> of the data table except the first and the last, each row holding the
\* text of that <tr>'s columns 2, 3 and 4.
C1_InteriorRowsReturned ==
    ScrapeEnded =>
        \A rows \in RowSeqs :
            page = TwoTablePage(rows) =>
                /\ raised = "none"
                /\ returned
                /\ sites = InteriorRows(rows)

\* C2: for a page that contains no closing </table> tag, feed then get_sites
\* yields an empty row list and raises no error.
C2_NoTableYieldsEmptyList ==
    (ScrapeEnded /\ ~HasCloseTable(page)) =>
        /\ raised = "none"
        /\ returned
        /\ sites = <<>>

\* C10: every row returned by get_sites holds exactly three strings, whatever
\* the cells contain (empty cells, several text nodes, text between tags).
C10_RowsHaveThreeStrings ==
    returned => \A i \in 1..Len(sites) : Len(sites[i]) = 3

(***************************************************************************)
(* Claims about the listings (checked under SpecListing)                   *)
(***************************************************************************)
\* the rows of a view that are data: all but the header row
DataRows(r) == Tail(r)

\* the number of rows of a sequence that satisfy a test
CountRows(rows, Test(_)) == Cardinality({k \in 1..Len(rows) : Test(rows[k])})

HostRowAcked(i) == Contains(S_ack, At(i, 2))
ServiceRowAcked(i) == Contains(S_ack, At(i, 3))

\* C4: every operation that reads the rows of a view positionally discards
\* element zero first, so that the header row is never taken for a data row:
\* what it returns comes from the data rows alone.
C4_HeaderRowDiscarded ==
    /\ op = "get_host_problems_table" => Len(table) = Len(DataRows(host_view))
    /\ op = "get_service_problems_table" =>
           Len(table) = Len(DataRows(service_view))
    /\ op = "get_comments" =>
           Len(table) = CountRows(DataRows(comments_view),
                                  LAMBDA i : At(i, 0) # S_Nagios_Process)
    /\ op = "get_acknowledged_hosts" =>
           table = get_acknowledged_hosts(DataRows(host_view),
                                          get_comments(comments_view))
    /\ op = "get_acknowledged_services" =>
           table = get_acknowledged_services(DataRows(service_view),
                                             get_comments(comments_view))
    /\ op = "unknown_refresh" =>
           refresh_hosts = unknown_refresh_hosts(DataRows(service_view))
    /\ op = "unmonitored_refresh" =>
           refresh_hosts = unmonitored_refresh_hosts(DataRows(service_view))

\* the comments of a list that are about a host, or about a service of it
\* when a service is asked for, by their places in the list
MatchingComments(comments, host, service) ==
    {k \in 1..Len(comments) :
        /\ At(comments[k], 2) = host
        /\ service # None => At(comments[k], 3) = service}

Earliest(places) == CHOOSE k \in places : \A j \in places : k <= j

\* the pair the claims expect for a lookup: author and text of the
\* earliest-listed matching comment, or nothing
ExpectedComment(comments, host, service) ==
    LET places == MatchingComments(comments, host, service)
    IN IF places = {} THEN None
       ELSE <<At(comments[Earliest(places)], 0),
              At(comments[Earliest(places)], 4)>>

\* C8: get_comment returns the author and text of the first comment in list
\* order whose host equals the requested host (and, when a service is given,
\* whose service equals the requested service), and nothing when no comment
\* matches; of two matching comments the earlier-listed one is returned.
C8_FirstMatchingComment ==
    op = "get_comment" =>
        table = ExpectedComment(get_comments(comments_view),
                                At(wanted, 0), At(wanted, 1))

\* C8 witness: two comments of the list match the lookup, their authors
\* differ, and the lookup has returned
C8_TwoMatchesSeen ==
    /\ op = "get_comment"
    /\ LET comments == get_comments(comments_view)
           places == MatchingComments(comments, At(wanted, 0), At(wanted, 1))
       IN /\ Cardinality(places) = 2
          /\ \E j, k \in places : At(comments[j], 0) # At(comments[k], 0)
          /\ table # None

\* C9: get_acknowledged_hosts and get_acknowledged_services return exactly
\* the problem rows whose icon cell contains 'ack', in input order, each with
\* exactly one (author, comment) pair: that of the first matching comment, or
\* two empty strings when no comment matches.
C9_AcknowledgedRowsAndPairs ==
    /\ op = "get_acknowledged_hosts" =>
        LET acked == SelectSeq(DataRows(host_view), HostRowAcked)
            comments == get_comments(comments_view)
        IN /\ Len(table) = Len(acked)
           /\ \A k \in 1..Len(acked) :
                LET pair == ExpectedComment(comments, At(acked[k], 0), None)
                IN /\ Len(table[k]) = 6
                   /\ At(table[k], 1) = At(acked[k], 0)
                   /\ At(table[k], 2) = At(acked[k], 1)
                   /\ At(table[k], 4) =
                          (IF pair = None THEN <<>> ELSE At(pair, 0))
                   /\ At(table[k], 5) =
                          (IF pair = None THEN <<>>
                           ELSE textwrap_fill(At(pair, 1), 60))
    /\ op = "get_acknowledged_services" =>
        LET acked == SelectSeq(DataRows(service_view), ServiceRowAcked)
            comments == get_comments(comments_view)
        IN /\ Len(table) = Len(acked)
           /\ \A k \in 1..Len(acked) :
                LET pair == ExpectedComment(comments, At(acked[k], 1),
                                            At(acked[k], 2))
                IN /\ Len(table[k]) = 7
                   /\ At(table[k], 1) = At(acked[k], 1)
                   /\ At(table[k], 2) = At(acked[k], 2)
                   /\ At(table[k], 5) =
                          (IF pair = None THEN <<>> ELSE At(pair, 0))
                   /\ At(table[k], 6) =
                          (IF pair = None THEN <<>>
                           ELSE textwrap_fill(At(pair, 1), 60))

(***************************************************************************)
(* Claims about the runs of a command (checked under Spec)                 *)
(***************************************************************************)
InSession == op \in {"acknowledge", "unacknowledge"}

\* the label in front of the k-th row of the two tables taken together
ExpectedLabel(k) == <<"[", " ">> \o rjust(str(k), 3) \o <<" ", "]">>

\* the request that acknowledges, and the one that removes an acknowledgement
AckKinds == {"acknowledge", "remove_ack"}

\* a number outside [1, n] was typed at the selection prompt
TypedOutside(n) ==
    /\ typed.prompt = "select"
    /\ typed.key = "line"
    /\ IsIntLiteral(typed.text)
    /\ IntValue(typed.text) \notin 1..n

\* C3: with N host rows and M service rows displayed, the host rows carry the
\* labels 1..N and the service rows N+1..N+M; an accepted selection k lies in
\* 1..N+M and names the row displayed with label k (host row k when k <= N,
\* service row k-N otherwise), and the request that follows is about that
\* row; a number outside [1, N+M] is rejected and the prompt is shown again.
C3_SelectionActsOnLabelledRow ==
    InSession =>
        LET N == Len(host_table)
            M == Len(service_table)
        IN /\ \A k \in 1..N : At(host_table[k], 0) = ExpectedLabel(k)
           /\ \A k \in 1..M : At(service_table[k], 0) = ExpectedLabel(N + k)
           /\ selected # 0 =>
                /\ selected \in 1..(N + M)
                /\ LET row == IF selected <= N THEN host_table[selected]
                              ELSE service_table[selected - N]
                   IN /\ At(row, 0) = ExpectedLabel(selected)
                      /\ target = <<At(row, 1), At(row, 2),
                                    IF selected <= N THEN None ELSE At(row, 3),
                                    At(row, 4)>>
                /\ \A j \in 1..Len(requests) :
                      requests[j].kind \in AckKinds =>
                          /\ requests[j].host = At(target, 1)
                          /\ requests[j].service = At(target, 2)
           /\ TypedOutside(N + M) =>
                /\ pc = "select"
                /\ selected = 0
                /\ \A j \in 1..Len(requests) : requests[j].kind \notin AckKinds

\* C3 witness: with host rows and service rows on display the first service
\* row was selected by its label N+1, and the request about it was sent
C3_FirstServiceRowSelected ==
    /\ InSession
    /\ Len(host_table) >= 1
    /\ Len(service_table) >= 1
    /\ selected = Len(host_table) + 1
    /\ \E j \in 1..Len(requests) :
          /\ requests[j].kind \in AckKinds
          /\ requests[j].service = At(service_table[1], 3)

\* C5: in a session, once an interrupt or the end of input is read at a
\* prompt the operation has ended, without an error and without a request to
\* acknowledge or to remove an acknowledgement.
C5_InterruptEndsWithoutRequest ==
    (InSession /\ typed.key = "interrupt") =>
        /\ pc = "done"
        /\ exit_code = 0
        /\ raised = "none"
        /\ \A j \in 1..Len(requests) : requests[j].kind \notin AckKinds

\* C5 witness: the interrupt came at the last prompt, the confirmation of an
\* acknowledgement whose problem and comment had been entered
C5_InterruptAtConfirmation ==
    /\ op = "acknowledge"
    /\ selected # 0
    /\ ack_comment # <<>>
    /\ typed.prompt = "confirm"
    /\ typed.key = "interrupt"

ViewActionKinds ==
    {"acknowledge", "remove_ack", "down_from_now", "down_custom",
     "remove_downtimes"}

FailureTexts ==
    {"unable to acknowledge service problem {} on host {}",
     "unable to acknowledge host problem on {}.",
     "unable to un-acknowledge service problem {} on host {}",
     "unable to un-acknowledge host problem on {}.",
     "could not remove downtime on service {} on host {}.",
     "could not remove downtime on host {}."}

\* C6: whenever the answer to a view action lacks "MESSAGE: Successfully
\* sent", a line reporting the failure has been written.
C6_FailedViewActionReported ==
    \A k \in 1..Len(requests) :
        (requests[k].kind \in ViewActionKinds /\ ~Succeeded(requests[k].answer))
            => \E j \in 1..Len(stdout) : stdout[j].text \in FailureTexts

\* the conditions of add_host_preflight_check, read off the arguments, the
\* scraped site list, the folders of the server and DNS
SiteListed ==
    /\ raised = "none"
    /\ \E k \in 1..Len(sites) : sites[k] # <<>> /\ At(sites[k], 0) = args.site

FolderRefused ==
    args.folder # "" /\ args.folder \notin Folders /\ ~args.folder_create

NameUnresolved ==
    /\ ~args.ignore_dns
    /\ IF args.ip = None THEN args.hostname \notin Resolvable
       ELSE ~IsIpLiteral(args.ip) /\ args.ip \notin Resolvable

\* C7: once add_host_preflight_check has run, if the site is not in the
\* scraped site list, or the folder given does not exist and folder_create is
\* not set, or DNS checks are enabled and the name checked (the hostname, or
\* the ip value when one is given and is not an IP address) does not resolve,
\* the process has exited with a non-zero status and no add_host request was
\* sent; otherwise add_host is about to be called or its request was sent.
C7_PreflightGuardsAddHost ==
    op = "add_host" =>
        IF ~SiteListed \/ FolderRefused \/ NameUnresolved
        THEN /\ pc = "done"
             /\ exit_code > 0
             /\ \A j \in 1..Len(requests) : requests[j].kind # "add_host"
        ELSE pc = "add_host" \/ Sent("add_host")

\* C7 witness: the site is listed and the name resolves, the folder does not
\* exist and is not to be created, and the process has exited
C7_MissingFolderStopsAddHost ==
    /\ op = "add_host"
    /\ SiteListed
    /\ ~NameUnresolved
    /\ FolderRefused
    /\ pc = "done"
    /\ exit_code = 1

(***************************************************************************)
(* Claims about the formatted rows (checked under SpecListing)             *)
(***************************************************************************)
AllRowsHave(n) == \A k \in 1..Len(table) : Len(table[k]) = n

S_acknowledged_flag ==
    <<"(", "a", "c", "k", "n", "o", "w", "l", "e", "d", "g", "e", "d", ")">>

S_foo == <<"f", "o", "o">>

\* C13: when the text starts with "CRIT - ", "WARN - " or "UNKNOWN - " the
\* result is the text without that one leading prefix, so that prefix and
\* result together are the text again ("CRIT - foo" gives "foo"); any other
\* text, also one holding a prefix further on, is returned unchanged.
C13_OneLeadingPrefixRemoved ==
    op = "strip_severity_prefix" =>
        LET leading == {p \in SeverityPrefixes : StartsWith(p, wanted)}
        IN /\ leading = {} => table = wanted
           /\ leading # {} => \E p \in leading : p \o table = wanted
           /\ wanted = S_CRIT_prefix \o S_foo => table = S_foo

\* C13 witness: of a prefix written twice only the first was removed
C13_SecondPrefixKept ==
    /\ op = "strip_severity_prefix"
    /\ wanted = S_WARN_prefix \o S_CRIT_prefix \o S_foo
    /\ table = S_CRIT_prefix \o S_foo

(***************************************************************************)
(* Claims about the detail cell of the listings (checked under SpecListing)*)
(***************************************************************************)
\* the detail cell is the fourth cell of a row of each of the four listings
DetailCell(row) == At(row, 3)

ProblemListings ==
    {"get_host_problems_table", "list_host_problems_table",
     "get_service_problems_table", "list_service_problems_table"}

\* the raw rows a listing has formatted, in order
ListedRawRows ==
    CASE op \in {"get_host_problems_table", "list_host_problems_table"} ->
             DataRows(host_view)
      [] op \in {"get_service_problems_table", "list_service_problems_table"} ->
             DataRows(service_view)
      [] op = "get_acknowledged_hosts" -> SelectSeq(host_view, HostRowAcked)
      [] op = "get_acknowledged_services" ->
             SelectSeq(service_view, ServiceRowAcked)
      [] OTHER -> <<>>

\* C14: in the host problems, service problems, acknowledged hosts and
\* acknowledged services listings the detail cell of every row is the raw
\* detail without its leading severity prefix, wrapped to 100 columns in the
\* problem listings and to 60 columns in the acknowledged listings.
C14_DetailStrippedThenWrapped ==
    op \in ProblemListings
              \cup {"get_acknowledged_hosts", "get_acknowledged_services"} =>
        /\ Len(table) = Len(ListedRawRows)
        /\ \A k \in 1..Len(table) :
              DetailCell(table[k]) =
                  textwrap_fill(strip_severity_prefix(At(ListedRawRows[k], 4)),
                                IF op \in ProblemListings THEN 100 ELSE 60)

(***************************************************************************)
(* Claims about the state cell of the listings (checked under SpecListing) *)
(***************************************************************************)
\* the emphasis of each severity code, as one rule for all listings
Emphasis(state) ==
    CASE state = S_CRIT -> str_red(state)
      [] state = S_WARN -> str_yellow(state)
      [] state = S_UNKN -> str_orange(state)
      [] state = S_DOWN -> str_red(state)
      [] OTHER -> state

HostListings ==
    {"get_host_problems_table", "list_host_problems_table",
     "get_acknowledged_hosts"}
ServiceListings ==
    {"get_service_problems_table", "list_service_problems_table",
     "get_acknowledged_services"}

\* the state cell of a raw row of the listing at hand
RawState(i) == IF op \in HostListings THEN At(i, 3) ELSE At(i, 0)

\* C15: in each of the four listings the state cell of every listed row is
\* the raw state with its emphasis when the raw state is CRIT, WARN, UNKN or
\* DOWN, and the raw state unchanged for any other code.
C15_StateCellEmphasised ==
    op \in HostListings \cup ServiceListings =>
        /\ Len(table) = Len(ListedRawRows)
        /\ \A k \in 1..Len(table) :
              At(table[k], 0) = Emphasis(RawState(ListedRawRows[k]))

(***************************************************************************)
(* Claims about the counters of a host row (checked under SpecListing)     *)
(***************************************************************************)
\* the colours of the ok, warn, crit and unknown counters, in that order
CounterColours ==
    <<"<fg:green>", "<fg:yellow>", "<fg:red>", "<fg:dark_orange>">>

\* the place of the ok counter in a listed host row: the sixth cell, or the
\* fifth when the status cell has been deleted
FirstCounter ==
    IF op = "list_host_problems_table" /\ ~wanted[1] THEN 4 ELSE 5

\* C16: in a row of the host problems table each of the counters ok, warn,
\* crit and unknown is the number in its own colour exactly when the raw
\* counter is not zero, and the plain number when it is zero, whatever the
\* other counters are; the pending counter is the plain number always.
C16_CountersRecolouredWhenNonZero ==
    op \in {"get_host_problems_table", "list_host_problems_table"} =>
        /\ Len(table) = Len(DataRows(host_view))
        /\ \A k \in 1..Len(table) :
              LET raw == DataRows(host_view)[k]
              IN /\ \A j \in 0..3 :
                       At(table[k], FirstCounter + j) =
                           (IF int(At(raw, 5 + j)) # 0
                            THEN Colored(CounterColours[j + 1],
                                         str(int(At(raw, 5 + j))))
                            ELSE str(int(At(raw, 5 + j))))
                 /\ At(table[k], FirstCounter + 4) = str(int(At(raw, 9)))

\* C16 witness: a row with two counters at zero, two above zero and a
\* pending counter above zero has been listed
C16_MixedCountersListed ==
    /\ op = "get_host_problems_table"
    /\ print_colour
    /\ DataRows(host_view) = <<HostRowDb2>>
    /\ int(At(HostRowDb2, 5)) = 0
    /\ int(At(HostRowDb2, 6)) > 0
    /\ int(At(HostRowDb2, 9)) > 0
    /\ At(table[1], 6) # str(int(At(HostRowDb2, 6)))

(***************************************************************************)
(* Claims about the prompts of a session (checked under Spec)              *)
(***************************************************************************)
\* the line last read was rejected by the prompt that read it
RejectedAtSelect ==
    /\ typed.prompt = "select"
    /\ get_problem_id(typed, Len(host_table) + Len(service_table)).again
RejectedAtComment ==
    /\ typed.prompt = "comment"
    /\ get_acknowledge_comment(typed).again

\* C17: a selection that is not an integer of [1, total], and an empty
\* comment, only make the same prompt appear again, however often that has
\* happened before: no error ends the run; and what the two prompts return
\* is a selection in [1, total] and a comment that is not empty.
C17_MalformedInputOnlyReprompts ==
    InSession =>
        /\ RejectedAtSelect =>
              pc = "select" /\ raised = "none" /\ exit_code = -1
        /\ RejectedAtComment =>
              pc = "comment" /\ raised = "none" /\ exit_code = -1
        /\ selected # 0 =>
              selected \in 1..(Len(host_table) + Len(service_table))
        /\ raised # "RecursionError"

(***************************************************************************)
(* Claims about the requests of a handler (checked under Spec)             *)
(***************************************************************************)
\* the number of requests of a kind among the requests made so far
CountKind(sent, kind) ==
    Cardinality({k \in 1..Len(sent) : sent[k].kind = kind})

\* the requests that act on the server, one kind for each handler
ActionKinds ==
    {"acknowledge", "remove_ack", "down_from_now", "down_custom",
     "remove_downtimes", "discover_services", "activate_changes", "add_host"}

\* the number of requests of a kind made by the step at hand
Added(kind) == CountKind(requests', kind) - CountKind(requests, kind)

\* the number of requests of a kind and about a host made by the step at hand
AddedAbout(kind, host) ==
    Cardinality({k \in 1..Len(requests') :
                    requests'[k].kind = kind /\ requests'[k].host = host})
      - Cardinality({k \in 1..Len(requests) :
                       requests[k].kind = kind /\ requests[k].host = host})

\* C18: a call of acknowledge_problem, unacknowledge_problem,
\* downtime_add_minutes, downtime_add_period, downtime_remove, refresh,
\* activate or add_host makes its own request exactly once, whatever the
\* answer to it; no step makes the request of one of them twice about one
\* host.
C18_ActionRequestSentOnce ==
    [][/\ AcknowledgeProblem => Added("acknowledge") = 1
       /\ UnacknowledgeProblem => Added("remove_ack") = 1
       /\ DowntimeAddMinutes => Added("down_from_now") = 1
       /\ DowntimeAddPeriod => Added("down_custom") = 1
       /\ DowntimeRemove => Added("remove_downtimes") = 1
       /\ Refresh => Added("discover_services") = 1
       /\ Activate => Added("activate_changes") = 1
       /\ AddHost => Added("add_host") = 1
       /\ \A kind \in ActionKinds :
             \A k \in 1..Len(requests') :
                 AddedAbout(kind, requests'[k].host) <= 1]_vars

\* C18 witness: add_host has returned after the server refused its request
C18_RefusedRequestNotRepeated ==
    /\ op = "add_host"
    /\ pc = "done"
    /\ exit_code = 1
    /\ CountKind(requests, "add_host") = 1
    /\ stdout # <<>>
    /\ Last(stdout).text = "error: {}"

(***************************************************************************)
(* Claims about the bulk operations (checked under Spec)                   *)
(***************************************************************************)
\* the hosts of the server whose name matches the string given, in order
Matching == matching_hosts(requests[1].answer, args.hostname, args.lazy)

\* the name get_ip gives to DNS for a host, and whether DNS is asked at all
NameAsked(h) ==
    IF requests[1].answer[h] = <<>> THEN h ELSE requests[1].answer[h]
Unresolved(h) ==
    ~IsIpLiteral(requests[1].answer[h]) /\ NameAsked(h) \notin Resolvable

ErrorLine(line) == line.text = "error: unable to resolve hostname: {}"

S_service_description ==
    <<"s", "e", "r", "v", "i", "c", "e", "_", "d", "e", "s", "c", "r", "i", "p", "t", "i", "o", "n">>

\* the columns no table shows: origin, fixed, duration and recurring
DroppedColumns ==
    {<<"d", "o", "w", "n", "t", "i", "m", "e", "_", "o", "r", "i", "g", "i", "n">>,
     <<"d", "o", "w", "n", "t", "i", "m", "e", "_", "f", "i", "x", "e", "d">>,
     <<"d", "o", "w", "n", "t", "i", "m", "e", "_", "d", "u", "r", "a", "t", "i", "o", "n">>,
     <<"d", "o", "w", "n", "t", "i", "m", "e", "_", "r", "e", "c", "u", "r", "r", "i", "n", "g">>}

\* the view read, the names of its columns and its rows
DowntimesRead == requests[1].answer
ColumnNames == DowntimesRead[1]

\* the cells of a row whose column is not among the named ones, in order
Without(columns, row) ==
    LET kept == SelectSeq([k \in 1..Len(ColumnNames) |-> k],
                          LAMBDA k : ColumnNames[k] \notin columns)
    IN [j \in 1..Len(kept) |-> row[kept[j]]]

ServiceBlank(i) ==
    \E k \in 1..Len(ColumnNames) :
        ColumnNames[k] = S_service_description /\ i[k] = <<>>

\* C20: the host table holds, in order, the rows of the view whose service
\* cell is blank and the service table all the others, so that every row is
\* in exactly one of them; a host row is shown without its service, origin,
\* fixed, duration and recurring cells, a service row without its origin,
\* fixed, duration and recurring cells; and the headers of each table are
\* the column names without those same columns.
C20_DowntimeRowsSplitAndTrimmed ==
    (op = "downtime_list" /\ Len(DowntimesRead) > 1) =>
        LET rows == Tail(DowntimesRead)
            hosts == SelectSeq(rows, ServiceBlank)
            services == SelectSeq(rows, LAMBDA i : ~ServiceBlank(i))
            bold == [k \in 1..Len(ColumnNames) |-> str_bold(ColumnNames[k])]
            host_columns == DroppedColumns \cup {S_service_description}
        IN /\ Len(table.host_downtimes) + Len(table.service_downtimes)
                  = Len(rows)
           /\ table.host_downtimes =
                  [k \in 1..Len(hosts) |-> Without(host_columns, hosts[k])]
           /\ table.service_downtimes =
                  [k \in 1..Len(services) |->
                      Without(DroppedColumns, services[k])]
           /\ table.host_downtimes_headers = Without(host_columns, bold)
           /\ table.service_downtimes_headers = Without(DroppedColumns, bold)

\* C20 witness: a view with a host downtime and a service downtime has been
\* listed, one row in each table
C20_BothTablesFilled ==
    /\ op = "downtime_list"
    /\ Len(table.host_downtimes) = 1
    /\ Len(table.service_downtimes) = 1
    /\ Len(table.host_downtimes[1]) = 6
    /\ Len(table.service_downtimes[1]) = 7

\* the bulk operations, and the requests by which each acts on a host
BulkOps ==
    {"downtime_bulk_add", "downtime_bulk_remove", "refresh_bulk", "get_ip_bulk"}

BulkKinds ==
    CASE op = "downtime_bulk_add" -> {"down_from_now", "down_custom"}
      [] op = "downtime_bulk_remove" -> {"remove_downtimes"}
      [] op = "refresh_bulk" -> {"discover_services"}
      [] OTHER -> {"get_host"}

\* the number of times the operation has acted on a host
ActedOn(h) ==
    Cardinality({k \in 1..Len(requests) :
                    requests[k].kind \in BulkKinds /\ requests[k].host = h})

\* the operation has run to its end: no exception ended it, and where it
\* asked whether to proceed the answer was yes
BulkCompleted ==
    /\ pc = "done"
    /\ raised = "none"
    /\ (op = "refresh_bulk" /\ args.confirm) =>
          (typed.prompt = "proceed" /\ yes_no(typed) = "True")

\* C21: a bulk operation that is not lazy and has run to its end has acted
\* once on every host of the server whose name contains the string given,
\* and not at all on any other host, whatever the string is.
C21_ActsOnHostsContainingString ==
    (op \in BulkOps /\ BulkCompleted /\ ~args.lazy) =>
        \A h \in DOMAIN requests[1].answer :
            ActedOn(h) = IF Contains(args.hostname, h) THEN 1 ELSE 0

(***************************************************************************)
(* The scraper before the header table has ended.                          *)
(***************************************************************************)
ScraperEvent == StartTagEvent \/ EndTagEvent \/ DataEvent

\* C22: while header_found is unset no tag or text event changes output,
\* row_index or column_index, and only a </table> end tag sets it; once it
\* is set no later event unsets it.
C22_BeforeHeaderNothingCollected ==
    [][ScraperEvent =>
          /\ ~header_found =>
                /\ output' = output
                /\ row_index' = row_index
                /\ column_index' = column_index
                /\ header_found' => page[pos] = EndTag("table")
          /\ header_found => header_found']_vars

\* a row, a cell and its text have gone by and the header table is still open
C22_CellsSeenBeforeHeader ==
    /\ ~header_found
    /\ \E i, j, k \in 1..(pos - 1) :
          /\ i < j /\ j < k
          /\ page[i] = StartTag("tr")
          /\ page[j] = StartTag("td")
          /\ page[k].ev = "data"

(***************************************************************************)
(* The scraper while it collects.                                          *)
(***************************************************************************)
\* the output with data appended to row number row_index (counted from 0)
AppendedToCurrentRow(data) ==
    /\ row_index + 1 \in 1..Len(output)
    /\ output' = [output EXCEPT ![row_index + 1] = Append(@, data)]

\* C23: once header_found is set, a <tr> start tag sets column_index to 0, a
\* <td> start tag adds 1 to it, and a text event is appended to the current
\* row exactly when column_index is 2, 3 or 4; text seen at any other
\* column_index leaves output as it was.
C23_TextCollectedInColumns2To4 ==
    [][header_found =>
          /\ (StartTagEvent /\ page[pos].arg = "tr") => column_index' = 0
          /\ (StartTagEvent /\ page[pos].arg = "td") =>
                column_index' = column_index + 1
          /\ DataEvent =>
                IF column_index \in {2, 3, 4}
                THEN AppendedToCurrentRow(page[pos].arg)
                ELSE output' = output]_vars

\* C24: after any sequence of tag and text events (get_sites not yet called)
\* row_index = len(output) - 1, and whenever column_index is 2, 3 or 4 the
\* row output[row_index] exists, so that handle_data has a row to append to.
C24_CurrentRowExists ==
    (raised = "none" /\ ~returned) =>
        /\ row_index = Len(output) - 1
        /\ column_index \in {2, 3, 4} => row_index \in 0..(Len(output) - 1)

\* C25: when the scraper has collected at least one row, get_sites returns
\* the collected rows minus the first and the last, in order, and raises
\* nothing; with exactly one collected row it returns the empty list.
C25_GetSitesDropsFirstAndLast ==
    [][(GetSites /\ Len(output) >= 1) =>
          /\ raised' = "none"
          /\ returned'
          /\ sites' = SubSeq(output, 2, Len(output) - 1)]_vars

(***************************************************************************)
(* The names sent by acknowledge and unacknowledge.                        *)
(***************************************************************************)
\* the rows of the two views that are on display, as the server sent them:
\* acknowledge lists every row, unacknowledge the rows with the ack icon
ReceivedHostRows ==
    IF op = "acknowledge" THEN DataRows(host_view)
    ELSE SelectSeq(DataRows(host_view), HostRowAcked)
ReceivedServiceRows ==
    IF op = "acknowledge" THEN DataRows(service_view)
    ELSE SelectSeq(DataRows(service_view), ServiceRowAcked)

\* the host and the service of the selected row as received (no service for
\* a host row)
ReceivedNames ==
    IF selected <= Len(ReceivedHostRows)
    THEN <<At(ReceivedHostRows[selected], 0), None>>
    ELSE LET raw == ReceivedServiceRows[selected - Len(ReceivedHostRows)]
         IN <<At(raw, 1), At(raw, 2)>>

\* C26: in acknowledge and unacknowledge the request that acknowledges, or
\* removes the acknowledgement, names the host and the service of the
\* selected row exactly as they were received from the server, whatever the
\* display did to the row (colours, wrapping at 70 characters, the label).
C26_RequestNamesAsReceived ==
    InSession =>
        \A j \in 1..Len(requests) :
            requests[j].kind \in AckKinds =>
                /\ requests[j].host = ReceivedNames[1]
                /\ requests[j].service = ReceivedNames[2]

(***************************************************************************)
(* The comment of an acknowledged host.                                    *)
(***************************************************************************)
\* a comment of get_comments recorded on the host itself, not on a service
HostLevelComment(c, host) == At(c, 2) = host /\ At(c, 3) = <<>>

\* C27: the author and comment shown in a row of get_acknowledged_hosts are
\* those of a comment recorded on the host itself; a comment recorded on one
\* of the host's services is never attached to the host row.
C27_HostRowCarriesHostComment ==
    op = "get_acknowledged_hosts" =>
        LET comments == get_comments(comments_view)
        IN \A k \in 1..Len(table) :
              (At(table[k], 4) # <<>> \/ At(table[k], 5) # <<>>) =>
                  \E j \in 1..Len(comments) :
                      /\ HostLevelComment(comments[j], At(table[k], 1))
                      /\ At(table[k], 4) = At(comments[j], 0)
                      /\ At(table[k], 5) = textwrap_fill(At(comments[j], 4), 60)

(***************************************************************************)
(* The refresh of several hosts.                                           *)
(***************************************************************************)
RefreshOps == {"refresh_bulk", "unknown_refresh", "unmonitored_refresh"}

\* the requests that change the configuration
RefreshKinds == {"discover_services", "activate_changes"}

\* the hosts of the discover_services requests, in the order they were sent
Discovered ==
    LET sent == SelectSeq(requests, LAMBDA q : q.kind = "discover_services")
    IN [k \in 1..Len(sent) |-> sent[k].host]

\* the hosts the operation selects, from what the server answered
SelectedHosts ==
    CASE op = "refresh_bulk" ->
            {h \in DOMAIN requests[1].answer :
                fnmatchcase(h, match_string(args.hostname, args.lazy))}
      [] op = "unknown_refresh" ->
            {At(a, 1) : a \in {b \in Elements(DataRows(service_view)) :
                                  At(b, 0) = S_UNKN}}
      [] op = "unmonitored_refresh" ->
            {At(a, 1) : a \in {b \in Elements(DataRows(service_view)) :
                                  /\ At(b, 2) = S_Check_MK_inventory
                                  /\ Contains(S_unmonitored, At(b, 4))}}

AnsweredYes == typed.prompt = "proceed" /\ yes_no(typed) = "True"

\* the operation went through: nothing to ask, or the answer was yes
RefreshProceeded ==
    /\ op \in RefreshOps
    /\ pc = "done"
    /\ raised = "none"
    /\ SelectedHosts # {}
    /\ args.confirm => AnsweredYes

\* C28: in refresh_bulk, unknown_refresh and unmonitored_refresh with a
\* confirmation required, no discover_services and no activate_changes
\* request is sent unless the question was answered yes; when the operation
\* proceeds every selected host is refreshed exactly once, in sorted order,
\* and activate_changes is requested, if asked for, once and after the last
\* refresh.
C28_RefreshOnlyAfterYes ==
    op \in RefreshOps =>
        /\ (args.confirm /\ ~AnsweredYes) =>
              \A k \in 1..Len(requests) : requests[k].kind \notin RefreshKinds
        /\ RefreshProceeded =>
              /\ Elements(Discovered) = SelectedHosts
              /\ \A j, k \in 1..Len(Discovered) :
                    j < k => LessText(Discovered[j], Discovered[k])
              /\ CountKind(requests, "activate_changes") =
                    (IF args.activate THEN 1 ELSE 0)
              /\ args.activate => Last(requests).kind = "activate_changes"

\* the question was answered yes, two hosts listed by the server in another
\* order than the sorted one were refreshed and the changes were activated
C28_TwoHostsRefreshedThenActivated ==
    /\ op = "unknown_refresh"
    /\ args.confirm
    /\ args.activate
    /\ RefreshProceeded
    /\ Len(Discovered) = 2
    /\ At(service_view[2], 1) = Discovered[2]
    /\ Last(requests).kind = "activate_changes"

(***************************************************************************)
(* The requests and the report of add_host.                                *)
(***************************************************************************)
\* the place of the add_host request among the requests of the run
AddHostAt == CHOOSE k \in 1..Len(requests) : requests[k].kind = "add_host"

\* the kinds of the requests sent after the add_host request, in order
KindsAfterAddHost ==
    [k \in 1..(Len(requests) - AddHostAt) |-> requests[AddHostAt + k].kind]

\* a message of the server without its 'Check_MK exception: ' prefix
WithoutExceptionPrefix(message) ==
    IF StartsWith(S_Check_MK_exception, message)
    THEN SubSeq(message, Len(S_Check_MK_exception) + 1, Len(message))
    ELSE message

\* C29: add_host sends add_host first, then discover_services for the new
\* host unless the mode is 'disabled', then activate_changes when activate
\* is set; when the result code of add_host is not 0 it prints the message
\* of the server without the 'Check_MK exception: ' prefix and in lower
\* case, exits with status 1 and sends neither of the other two requests.
C29_AddHostRequestsInOrder ==
    (op = "add_host" /\ Sent("add_host")) =>
        /\ CountKind(requests, "add_host") = 1
        /\ \A j \in 1..(AddHostAt - 1) : requests[j].kind \notin RefreshKinds
        /\ IF requests[AddHostAt].result_code = 0
           THEN /\ KindsAfterAddHost =
                     (IF args.mode # "disabled"
                      THEN <<"discover_services">> ELSE <<>>)
                         \o (IF args.activate
                             THEN <<"activate_changes">> ELSE <<>>)
                /\ args.mode # "disabled" =>
                     requests[AddHostAt + 1].host = args.hostname
           ELSE /\ KindsAfterAddHost = <<>>
                /\ exit_code = 1
                /\ Last(stdout).about =
                     <<Lower(WithoutExceptionPrefix(requests[AddHostAt].answer))>>

\* the server refused the host with a 'Check_MK exception: ' message, and
\* the run ended with status 1
C29_RefusedHostReported ==
    /\ op = "add_host"
    /\ Sent("add_host")
    /\ requests[AddHostAt].result_code = 1
    /\ StartsWith(S_Check_MK_exception, requests[AddHostAt].answer)
    /\ Last(stdout).text = "error: {}"
    /\ exit_code = 1


====
